---- MODULE Spec2Model ----
(***************************************************************************)
(* A state-machine model of lowzip (src/lowzip.c): the bit reader, the     *)
(* inflate engine, the ZIP central-directory scanner and the extractor.    *)
(*                                                                         *)
(* Representation.                                                         *)
(*  - A byte is a number 0..255; the read callback's out-of-bounds         *)
(*    sentinel 0x100 is 256.                                               *)
(*  - An `unsigned int` that the code only compares (magics, CRC-32) is    *)
(*    kept as its four base-256 digits, least significant first, exactly   *)
(*    as lowzip_read_little_endian assembles it.  An `unsigned int` the    *)
(*    code computes with (offsets, sizes) is a number; the archives of     *)
(*    this model keep those fields below 2^31.                             *)
(*  - The output window is the sequence `output` of output_cap bytes;      *)
(*    output_next is the cursor's distance from output_start.              *)
(*  - scratch[k] is the 16-bit word at scratch bytes [2k, 2k+2), for the   *)
(*    Huffman table area [0,700); code_lens is the byte area [700,1020).   *)
(*    The lowzip_file view of the scratch area is the variable fi.         *)
(***************************************************************************)
EXTENDS Integers, Sequences, FiniteSets, TLC

VARIABLES
    input,              \* the bytes behind the read callback
    src,                \* what the input was built from (caller's knowledge)
    output_cap,         \* st->output_end - st->output_start
    output,             \* the memory [output_start, output_end)
    output_next,        \* st->output_next - st->output_start
    central_dir_offset, \* st->central_dir_offset
    have_error,         \* st->have_error
    read_offset,        \* st->read_offset
    curr,               \* st->curr
    have,               \* st->have
    scratch,            \* st->scratch viewed as 16-bit words, bytes [0,700)
    code_lens,          \* st->scratch bytes [700,1020): temp_code_lens
    fi,                 \* st->scratch viewed as lowzip_file
    pc,                 \* position of the operation in progress
    call,               \* the public operation in progress
    loc,                \* locals of the operation in progress
    ret,                \* what the last lowzip_locate_file returned
    archive_open,       \* the last lowzip_init_archive succeeded
    obs                 \* history of the operation in progress

vars == <<input, src, output_cap, output, output_next, central_dir_offset,
          have_error, read_offset, curr, have, scratch, code_lens, fi, pc,
          call, loc, ret, archive_open, obs>>

(***************************************************************************)
(* Program constants.                                                      *)
(***************************************************************************)
LOWZIP_MIN_EOCDIR_LENGTH == 22
LOWZIP_MAX_EOCDIR_LENGTH == 65557
LOWZIP_MIN_CDIRFILE_LENGTH == 46
LOWZIP_MIN_LOCFILE_LENGTH == 30
LOWZIP_COMPRESSION_STORE == 0
LOWZIP_COMPRESSION_DEFLATE == 8
LOWZIP_SCRATCH_HUFF_LIT == 0
\* Byte offset 604 as an index of 16-bit words.
LOWZIP_SCRATCH_HUFF_DIST == 302
\* sizeof(st->scratch) - 320, the byte offset of temp_code_lens.
TEMP_CODE_LENS_OFFSET == 700
\* sizeof(fi->filename) - 1
FILENAME_MAX == 255
OOB == 256

lowzip_len_bits ==
    <<0, 0, 0, 0, 0, 0, 0, 0, 1, 1, 1, 1, 2, 2, 2, 2,
      3, 3, 3, 3, 4, 4, 4, 4, 5, 5, 5, 5, 0>>

\* A length table whose last entry (symbol 285) is two too large.
LenBaseLastTooLarge ==
    <<0, 1, 2, 3, 4, 5, 6, 7, 8, 10, 12, 14, 16, 20, 24, 28,
      32, 40, 48, 56, 64, 80, 96, 112, 128, 160, 192, 224, 257>>

lowzip_len_base ==
    <<0, 1, 2, 3, 4, 5, 6, 7, 8, 10, 12, 14, 16, 20, 24, 28,
      32, 40, 48, 56, 64, 80, 96, 112, 128, 160, 192, 224, 255>>

lowzip_dist_bits ==
    <<0, 0, 0, 0, 1, 1, 2, 2, 3, 3, 4, 4, 5, 5, 6, 6, 7, 7,
      8, 8, 9, 9, 10, 10, 11, 11, 12, 12, 13, 13>>

\* A distance table whose first entry is 0.
DistBaseFromZero ==
    <<0, 2, 3, 4, 5, 7, 9, 13, 17, 25, 33, 49, 65, 97, 129,
      193, 257, 385, 513, 769, 1025, 1537, 2049, 3073, 4097,
      6145, 8193, 12289, 16385, 24577>>

lowzip_dist_base ==
    <<1, 2, 3, 4, 5, 7, 9, 13, 17, 25, 33, 49, 65, 97, 129,
      193, 257, 385, 513, 769, 1025, 1537, 2049, 3073, 4097,
      6145, 8193, 12289, 16385, 24577>>

lowzip_codelen_order ==
    <<16, 17, 18, 0, 8, 7, 9, 6, 10, 5, 11, 4, 12, 3, 13, 2, 14, 1, 15>>

\* The four ZIP magics, as the digits lowzip_read4 assembles.
MAGIC_CDIRFILE == <<80, 75, 1, 2>>      \* 0x02014b50
MAGIC_LOCFILE == <<80, 75, 3, 4>>       \* 0x04034b50
MAGIC_EOCDIR == <<80, 75, 5, 6>>        \* 0x06054b50
MAGIC_DATADESC == <<80, 75, 7, 8>>      \* 0x08074b50

(***************************************************************************)
(* Arithmetic on machine words.                                            *)
(***************************************************************************)
(***************************************************************************)
(* Bounds of the exploration.                                              *)
(***************************************************************************)
\* Largest output window the caller provides besides the entry's own size.
MaxCap == 6
\* Largest entry size for which the caller's allocation is modelled.
MaxAlloc == 8
\* Largest central directory index asked for.
MaxIdx == 4
\* The large window of a raw inflate: it holds every short payload.
MaxRawCap == 12
\* The window offered to the streams holding the longest back-reference.
LongRunCap == 261
\* A name of 256 bytes, one more than a lowzip_file holds, and a name of
\* the same length that differs from it in the last byte only.
LongName == [k \in 1..256 |-> 110]
LongNameOther == [k \in 1..256 |-> IF k = 256 THEN 109 ELSE 110]
\* The names asked for ("a", "b", "c", the long ones); <<>> stands for
\* name = NULL.
Names == {<<>>, <<97>>, <<98>>, <<99>>, LongName, LongNameOther}

RECURSIVE BitOr(_, _)
BitOr(a, b) ==
    IF a = 0 THEN b
    ELSE IF b = 0 THEN a
    ELSE 2 * BitOr(a \div 2, b \div 2) + (IF a % 2 = 1 \/ b % 2 = 1 THEN 1 ELSE 0)

\* The value of little-endian base-256 digits (used for fields below 2^31).
RECURSIVE Val(_)
Val(d) == IF Len(d) = 0 THEN 0 ELSE d[1] + 256 * Val(Tail(d))

Min(a, b) == IF a < b THEN a ELSE b

\* The C sequence "x = e; F(x)": e is evaluated once and F gets its value.
Then(e, F(_)) == CHOOSE y \in {F(x) : x \in {e}} : TRUE

(***************************************************************************)
(* The machine: the fields of lowzip_state that the helpers change, the    *)
(* value a helper returns (ret), and the history of the operation.         *)
(***************************************************************************)
Cur ==
    [have_error |-> have_error, read_offset |-> read_offset, curr |-> curr,
     have |-> have, output |-> output, output_next |-> output_next,
     scratch |-> scratch, code_lens |-> code_lens, ret |-> 0,
     oob |-> obs.oob, bad_store |-> obs.bad_store,
     late_store |-> obs.late_store, huff_wrap |-> obs.huff_wrap,
     huff_index |-> obs.huff_index, back_dist |-> obs.back_dist,
     back_len |-> obs.back_len, bad_load |-> obs.bad_load,
     len_symbol |-> obs.len_symbol, len_index |-> obs.len_index,
     dist_symbol |-> obs.dist_symbol, dist_index |-> obs.dist_index]

Commit(m) ==
    /\ have_error' = m.have_error
    /\ read_offset' = m.read_offset
    /\ curr' = m.curr
    /\ have' = m.have
    /\ output' = m.output
    /\ output_next' = m.output_next
    /\ scratch' = m.scratch
    /\ code_lens' = m.code_lens
    /\ obs' = [obs EXCEPT !.oob = m.oob, !.bad_store = m.bad_store,
                          !.late_store = m.late_store,
                          !.huff_wrap = m.huff_wrap,
                          !.huff_index = m.huff_index,
                          !.back_dist = m.back_dist,
                          !.back_len = m.back_len,
                          !.bad_load = m.bad_load,
                          !.len_symbol = m.len_symbol,
                          !.len_index = m.len_index,
                          !.dist_symbol = m.dist_symbol,
                          !.dist_index = m.dist_index]

\* my_read of the test program: a byte, or 0x100 at or past the end.  A
\* negative offset stands for the unsigned value 2^32 + offset.
ReadCallback(offset) ==
    IF offset >= 0 /\ offset < Len(input) THEN input[offset + 1] ELSE OOB

(***************************************************************************)
(* Read/write helpers.                                                     *)
(***************************************************************************)
\* *st->output_next++ = ch.  A store outside the window is recorded.
Store(m, ch) ==
    [m EXCEPT !.output = IF m.output_next >= 0 /\ m.output_next < Len(m.output)
                         THEN [@ EXCEPT ![m.output_next + 1] = ch] ELSE @,
              !.output_next = @ + 1,
              !.bad_store = @ \/ m.output_next < 0 \/ m.output_next >= Len(m.output),
              !.late_store = @ \/ m.have_error = 1]

\* A write that does not look at output_end.
WriteByteUnchecked(m, ch) == Store(m, ch)

lowzip_write_byte(m, ch) ==
    IF m.output_next >= Len(m.output)
    THEN [m EXCEPT !.have_error = 1]
    ELSE Store(m, ch)

\* ret: the digits of res, least significant first (all zero after an
\* out-of-bounds read).  The bytes are read from offset + count - 1 down to
\* offset; acc holds the digits read so far, n the number asked for.
RECURSIVE ReadLittleEndianFrom(_, _, _, _, _)
ReadLittleEndianFrom(m, offset, count, n, acc) ==
    IF count = 0 THEN [m EXCEPT !.ret = acc]
    ELSE LET t == ReadCallback(offset + count - 1) IN
         IF t >= OOB
         THEN [m EXCEPT !.have_error = 1, !.oob = TRUE,
                        !.ret = [k \in 1..n |-> 0]]
         ELSE ReadLittleEndianFrom(m, offset, count - 1, n, <<t>> \o acc)

lowzip_read_little_endian(m, offset, count) ==
    ReadLittleEndianFrom(m, offset, count, count, <<>>)

lowzip_read4(m, offset) == lowzip_read_little_endian(m, offset, 4)

lowzip_read2(m, offset) ==
    LET r == lowzip_read_little_endian(m, offset, 2) IN [r EXCEPT !.ret = Val(@)]

lowzip_read1(m, offset) ==
    LET r == lowzip_read_little_endian(m, offset, 1) IN [r EXCEPT !.ret = Val(@)]

\* A read that feeds in the zero byte without flagging the overrun.
ReadByteSilent(m) ==
    LET x == ReadCallback(m.read_offset) IN
    IF x < OOB
    THEN [m EXCEPT !.read_offset = @ + 1, !.ret = x]
    ELSE [m EXCEPT !.oob = TRUE, !.ret = 0]

lowzip_read_byte(m) ==
    LET x == ReadCallback(m.read_offset) IN
    IF x < OOB
    THEN [m EXCEPT !.read_offset = @ + 1, !.ret = x]
    ELSE [m EXCEPT !.have_error = 1, !.oob = TRUE, !.ret = 0]

(***************************************************************************)
(* Bit reader.                                                             *)
(***************************************************************************)
\* The while loop of lowzip_read_bits: curr |= (x << have); have += 8.
RECURSIVE FillBits(_, _)
FillBits(m, nbits) ==
    IF m.have < nbits
    THEN Then(lowzip_read_byte(m), LAMBDA b :
         FillBits([b EXCEPT !.curr = BitOr(m.curr, b.ret * 2^m.have),
                            !.have = m.have + 8], nbits))
    ELSE m

lowzip_read_bits(m, nbits) ==
    Then(FillBits(m, nbits), LAMBDA f :
    [f EXCEPT !.ret = f.curr % 2^nbits,
              !.have = f.have - nbits,
              !.curr = f.curr \div 2^nbits])

\* The for loop of lowzip_read_bits_reversed: mask1 runs down, mask2 up.
RECURSIVE ReverseBits(_, _, _, _)
ReverseBits(tmp, mask1, mask2, res) ==
    LET m1 == mask1 \div 2 IN
    IF m1 = 0 THEN res
    ELSE ReverseBits(tmp, m1, mask2 * 2,
                     IF (tmp \div m1) % 2 = 1 THEN res + mask2 ELSE res)

\* The variant of lowzip_read_bits_reversed that is compiled out: nbits
\* one-bit reads, res = (res << 1U) + lowzip_read_bits(st, 1).
RECURSIVE ReadBitsOneByOne(_, _, _)
ReadBitsOneByOne(m, nbits, res) ==
    IF nbits = 0 THEN [m EXCEPT !.ret = res]
    ELSE Then(lowzip_read_bits(m, 1), LAMBDA b :
         ReadBitsOneByOne(b, nbits - 1, res * 2 + b.ret))

\* A read that hands the bits out as lowzip_read_bits does.
ReadBitsUnreversed(m, nbits) == lowzip_read_bits(m, nbits)

lowzip_read_bits_reversed(m, nbits) ==
    Then(lowzip_read_bits(m, nbits), LAMBDA r :
    [r EXCEPT !.ret = ReverseBits(r.ret, 2^nbits, 1, 0)])

\* st->have = 0; st->curr is left as it is.
lowzip_reset_bitstate(m) == [m EXCEPT !.have = 0]

(***************************************************************************)
(* Huffman tables.                                                         *)
(***************************************************************************)
\* First index (from 1) of a code length above 15, or 0.
FirstBadLen(code_lens_, code_lens_count) ==
    IF \E j \in 1..code_lens_count : code_lens_[j] > 15
    THEN CHOOSE j \in 1..code_lens_count :
            /\ code_lens_[j] > 15
            /\ \A k \in 1..(j - 1) : code_lens_[k] <= 15
    ELSE 0

\* The symbols whose code length is i, in ascending order.
SymbolsOfLen(code_lens_, code_lens_count, i) ==
    LET Has(j) == code_lens_[j + 1] = i IN
    SelectSeq([j \in 1..code_lens_count |-> j - 1], Has)

RECURSIVE HuffCodes(_, _, _)
HuffCodes(code_lens_, code_lens_count, i) ==
    IF i > 15 THEN <<>>
    ELSE SymbolsOfLen(code_lens_, code_lens_count, i)
         \o HuffCodes(code_lens_, code_lens_count, i + 1)

\* code_lens_ is a sequence holding the code lengths (code_lens_[j + 1] is
\* the C code_lens[j]); out_huff is the table's index in scratch.
lowzip_prepare_huffman(m, code_lens_, code_lens_count, out_huff) ==
    LET bad == FirstBadLen(code_lens_, code_lens_count)
        counted == IF bad = 0 THEN code_lens_count ELSE bad - 1
        out_counts == [t \in 0..15 |->
                         Cardinality({j \in 1..counted : code_lens_[j] = t})]
        out_codes == IF bad = 0 THEN HuffCodes(code_lens_, code_lens_count, 1)
                     ELSE <<>>
        written == [k \in DOMAIN m.scratch |->
                      IF k >= out_huff /\ k < out_huff + 16
                      THEN out_counts[k - out_huff]
                      ELSE IF k >= out_huff + 16 /\ k < out_huff + 16 + Len(out_codes)
                      THEN out_codes[k - out_huff - 15]
                      ELSE m.scratch[k]]
    IN [m EXCEPT !.scratch = written,
                 !.have_error = IF bad = 0 THEN @ ELSE 1]

\* A 16-bit word of the scratch area; beyond the modelled area there is
\* nothing to read.
ScratchWord(m, k) == IF k \in DOMAIN m.scratch THEN m.scratch[k] ELSE 0

\* A code_start that is not doubled from one bit length to the next.
HuffmanNextStartNoShift(code_start, curr_count) == code_start + curr_count

\* code_start = (code_start + curr_count) << 1U
HuffmanNextStart(code_start, curr_count) == (code_start + curr_count) * 2

\* The for loop of lowzip_decode_huffman from bit length i on.  The unsigned
\* code - code_start wraps to a value above every count when code is below
\* code_start (huff_wrap records that it did); huff_index is the index into
\* the symbols array that was read.
RECURSIVE DecodeHuffmanFrom(_, _, _, _, _, _)
DecodeHuffmanFrom(m, huff, i, code0, code_start, codes_offset) ==
    IF i > 15 THEN [m EXCEPT !.have_error = 1, !.ret = 0]
    ELSE Then(lowzip_read_bits(m, 1), LAMBDA b :
         LET code == code0 * 2 + b.ret
             curr_count == ScratchWord(b, huff + i)
             diff == code - code_start
         IN IF diff >= 0 /\ diff < curr_count
            THEN [b EXCEPT !.ret = ScratchWord(b, huff + 16 + codes_offset + diff),
                           !.huff_index = codes_offset + diff]
            ELSE DecodeHuffmanFrom([b EXCEPT !.huff_wrap = @ \/ diff < 0],
                                   huff, i + 1, code,
                                   HuffmanNextStart(code_start, curr_count),
                                   codes_offset + curr_count))

lowzip_decode_huffman(m, huff) ==
    DecodeHuffmanFrom([m EXCEPT !.huff_index = -1], huff, 1, 0, 0, 0)

(***************************************************************************)
(* Inflate block decoding.  Each operator below is one pass through a loop *)
(* body of the code; its result is the machine after the pass.  In ret it  *)
(* leaves what the loop needs next.                                        *)
(***************************************************************************)
\* Where control goes when lowzip_inflate_raw returns.
AfterInflate == IF call = "get_data" THEN "validate" ELSE "idle"

\* if (blockhdr & 0x01U) break; else the next pass of the block loop.
AfterBlock(blockhdr) == IF blockhdr % 2 = 1 THEN AfterInflate ELSE "blocks"

\* lowzip_decode_uncompressed_block up to its copy loop; ret is len.
UncompressedHeader(m) ==
    Then(lowzip_read_byte(lowzip_reset_bitstate(m)), LAMBDA r1 :
    Then(lowzip_read_byte(r1), LAMBDA r2 :
    Then(lowzip_read_byte(r2), LAMBDA r3 :
    Then(lowzip_read_byte(r3), LAMBDA r4 :
    [r4 EXCEPT !.ret = r1.ret + r2.ret * 256]))))

\* One pass of: while (len-- > 0) lowzip_write_byte(st, lowzip_read_byte(st)).
UncompressedCopyByte(m) ==
    Then(lowzip_read_byte(m), LAMBDA r : lowzip_write_byte(r, r.ret))

\* The for loop reading nclen code length code lengths into
\* codelen_code_lens (a sequence: entry s + 1 is the C entry s).
RECURSIVE ReadCodelenLens(_, _, _, _)
ReadCodelenLens(m, i, nclen, codelen_code_lens) ==
    IF i >= nclen THEN [m EXCEPT !.ret = codelen_code_lens]
    ELSE Then(lowzip_read_bits(m, 3), LAMBDA r :
         ReadCodelenLens(r, i + 1, nclen,
             [codelen_code_lens EXCEPT ![lowzip_codelen_order[i + 1] + 1] = r.ret]))

\* codelen_code_lens is the 19 bytes at scratch bytes [70,89): words 35..44
\* (low byte first; byte 89 is not part of it).
StoreCodelenLens(m, codelen_code_lens) ==
    LET byte(b) == IF b >= 70 /\ b < 89 THEN codelen_code_lens[b - 69]
                   ELSE m.scratch[b \div 2] \div 256
    IN [m EXCEPT !.scratch = [k \in DOMAIN @ |->
                                IF k >= 35 /\ k <= 44
                                THEN byte(2 * k) + 256 * byte(2 * k + 1)
                                ELSE @[k]]]

\* lowzip_decode_dynamic_huffman_block up to the code length loop; ret is
\* <<nlit, ndist>>.
DynamicHeader(m) ==
    Then(lowzip_read_bits(m, 5), LAMBDA r1 :
    Then(lowzip_read_bits(r1, 5), LAMBDA r2 :
    Then(lowzip_read_bits(r2, 4), LAMBDA r3 :
    Then(ReadCodelenLens(r3, 0, r3.ret + 4, [s \in 1..19 |-> 0]), LAMBDA r4 :
    Then(StoreCodelenLens(r4, r4.ret), LAMBDA r5 :
    [lowzip_prepare_huffman(r5, r4.ret, 19, 0)
        EXCEPT !.ret = <<r1.ret + 257, r2.ret + 1>>])))))

\* temp_code_lens[i++] = rep_code, rep_count times or up to total entries.
FillCodeLens(m, i, total, rep_code, rep_count) ==
    LET n == Min(rep_count, total - i) IN
    [m EXCEPT !.code_lens = [k \in DOMAIN @ |->
                               IF k > i /\ k <= i + n THEN rep_code ELSE @[k]],
              !.have_error = IF rep_count > total - i THEN 1 ELSE @,
              !.ret = IF rep_count > total - i THEN -1 ELSE i + n]

\* One pass of the code length loop; ret is the new i, or -1 after
\* goto format_error.
DynamicCodeLengthPass(m, i, total) ==
    Then(lowzip_decode_huffman(m, 0), LAMBDA d :
    LET t == d.ret
    IN IF t < 16 THEN FillCodeLens(d, i, total, t, 1)
       ELSE IF t = 16
       THEN IF i = 0 THEN [d EXCEPT !.have_error = 1, !.ret = -1]
            ELSE Then(lowzip_read_bits(d, 2), LAMBDA r :
                 FillCodeLens(r, i, total, d.code_lens[i], 3 + r.ret))
       ELSE IF t = 17
       THEN Then(lowzip_read_bits(d, 3), LAMBDA r :
            FillCodeLens(r, i, total, 0, 3 + r.ret))
       ELSE IF t # 18 THEN [d EXCEPT !.have_error = 1, !.ret = -1]
       ELSE Then(lowzip_read_bits(d, 7), LAMBDA r :
            FillCodeLens(r, i, total, 0, 11 + r.ret)))

\* The two lowzip_prepare_huffman calls after the code length loop, with
\* their have_error checks; ret is 1 when block data is decoded next.
DynamicPrepareTables(m, nlit, ndist) ==
    Then(lowzip_prepare_huffman(m, SubSeq(m.code_lens, 1, nlit), nlit,
                                LOWZIP_SCRATCH_HUFF_LIT), LAMBDA lit :
    IF lit.have_error = 1 THEN [lit EXCEPT !.ret = 0]
    ELSE Then(lowzip_prepare_huffman(lit, SubSeq(lit.code_lens, nlit + 1, nlit + ndist),
                                     ndist, LOWZIP_SCRATCH_HUFF_DIST), LAMBDA dist :
         IF dist.have_error = 1 THEN [dist EXCEPT !.ret = 0]
         ELSE [dist EXCEPT !.ret = 1]))

\* The hand-crafted static literal/length decoder.
StaticLitLen(m) ==
    Then(lowzip_read_bits_reversed(m, 7), LAMBDA r :
    LET t == r.ret
    IN IF t <= 23 THEN [r EXCEPT !.ret = t + 256]
       ELSE IF t <= 95
       THEN Then(lowzip_read_bits(r, 1), LAMBDA b : [b EXCEPT !.ret = t * 2 + b.ret - 48])
       ELSE IF t <= 99
       THEN Then(lowzip_read_bits(r, 1), LAMBDA b : [b EXCEPT !.ret = t * 2 + b.ret + 88])
       ELSE Then(lowzip_read_bits_reversed(r, 2), LAMBDA b :
            [b EXCEPT !.ret = t * 4 + b.ret - 256]))

\* *(st->output_next - back_dist); nothing is modelled before output_start.
OutputBack(m, back_dist) ==
    LET k == m.output_next - back_dist + 1 IN
    IF k >= 1 /\ k <= Len(m.output) THEN m.output[k] ELSE 0

\* while (back_len-- > 0) { *st->output_next = *(st->output_next - back_dist);
\* st->output_next++; }  The passes of a long copy are evaluated as its
\* first half followed by the rest.  A load from outside
\* [output_start, output_next) is recorded in bad_load.
RECURSIVE CopyBack(_, _, _)
CopyBack(m, back_dist, back_len) ==
    IF back_len = 0 THEN m
    ELSE IF back_len > 1
    THEN Then(CopyBack(m, back_dist, back_len \div 2), LAMBDA s :
         CopyBack(s, back_dist, back_len - back_len \div 2))
    ELSE Store([m EXCEPT !.bad_load = @ \/ back_dist < 1
                                       \/ back_dist > m.output_next],
               OutputBack(m, back_dist))

\* A check that lets every distance through.
BackReferenceAnyDistance(m, back_dist, back_len) ==
    ~(back_len > Len(m.output) - m.output_next)

\* The two checks before the copy loop: TRUE when the copy goes ahead.
BackReferenceOk(m, back_dist, back_len) ==
    /\ ~(back_dist > m.output_next)
    /\ ~(back_len > Len(m.output) - m.output_next)

\* The history of a pass before a symbol is decoded: no back-reference, no
\* length or distance symbol, no table read.
PassStart(m) ==
    [m EXCEPT !.back_dist = 0, !.back_len = 0, !.len_symbol = -1,
              !.len_index = -1, !.dist_symbol = -1, !.dist_index = -1]

\* if (t > 285) goto format_error;
LenSymbolRefused(t) == t > 285

\* if (t > 29) goto format_error;
DistSymbolRefused(t) == t > 29

\* The back-reference branch, t being the literal/length symbol; ret is 0
\* when the block goes on and 1 after goto format_error / buffer_error.
\* back_dist and back_len are kept for the history of the pass, as are the
\* two symbols and the indices at which the four tables are read.
BackReference(m, static_huffman, t) ==
    IF LenSymbolRefused(t)
    THEN [m EXCEPT !.have_error = 1, !.ret = 1, !.len_symbol = t]
    ELSE Then(lowzip_read_bits([m EXCEPT !.len_symbol = t, !.len_index = t - 257],
                               lowzip_len_bits[t - 257 + 1]), LAMBDA l :
         Then(IF static_huffman = 0
              THEN lowzip_decode_huffman(l, LOWZIP_SCRATCH_HUFF_DIST)
              ELSE lowzip_read_bits_reversed(l, 5), LAMBDA d :
         IF DistSymbolRefused(d.ret)
         THEN [d EXCEPT !.have_error = 1, !.ret = 1, !.dist_symbol = d.ret]
         ELSE Then(lowzip_read_bits([d EXCEPT !.dist_symbol = d.ret,
                                              !.dist_index = d.ret],
                                    lowzip_dist_bits[d.ret + 1]), LAMBDA e :
              LET back_len == lowzip_len_base[t - 257 + 1] + 3 + l.ret
                  back_dist == lowzip_dist_base[d.ret + 1] + e.ret
                  g == [e EXCEPT !.back_dist = back_dist, !.back_len = back_len]
              IN IF ~BackReferenceOk(g, back_dist, back_len)
                 THEN [g EXCEPT !.have_error = 1, !.ret = 1]
                 ELSE [CopyBack(g, back_dist, back_len) EXCEPT !.ret = 0])))

\* One pass of the for loop of lowzip_decode_huffman_block_data, entered
\* with have_error clear; ret is 0 when the loop goes on, 1 when it is left.
HuffmanSymbolPass(m, static_huffman) ==
    Then(IF static_huffman = 0
         THEN lowzip_decode_huffman(PassStart(m), LOWZIP_SCRATCH_HUFF_LIT)
         ELSE StaticLitLen(PassStart(m)), LAMBDA s :
    IF s.ret < 256 THEN [lowzip_write_byte(s, s.ret) EXCEPT !.ret = 0]
    ELSE IF s.ret = 256 THEN [s EXCEPT !.ret = 1]
    ELSE BackReference(s, static_huffman, s.ret))

(***************************************************************************)
(* ZIP CRC32.  The 32-bit register is <<low 16 bits, high 16 bits>>.       *)
(***************************************************************************)
RECURSIVE LsbBits(_, _)
LsbBits(v, n) == IF n = 0 THEN <<>> ELSE <<v % 2>> \o LsbBits(v \div 2, n - 1)

RECURSIVE BitsVal(_)
BitsVal(bits) == IF Len(bits) = 0 THEN 0 ELSE bits[1] + 2 * BitsVal(Tail(bits))

\* a ^ b on non-negative integers.
RECURSIVE BitXor(_, _)
BitXor(a, b) ==
    IF a = 0 THEN b
    ELSE IF b = 0 THEN a
    ELSE 2 * BitXor(a \div 2, b \div 2) + ((a + b) % 2)

\* 0xedb88320 as <<low half, high half>>
CRC_POLY == <<33568, 60856>>

\* crc >> 1
ShiftRight1(crc) == <<(crc[1] \div 2) + (crc[2] % 2) * 32768, crc[2] \div 2>>

XorHalves(a, b) == <<BitXor(a[1], b[1]), BitXor(a[2], b[2])>>

\* The inner for loop: eight conditional shift/xor steps.
RECURSIVE CrcShift(_, _)
CrcShift(crc, i) ==
    IF i = 8 THEN crc
    ELSE IF crc[1] % 2 = 1
    THEN CrcShift(XorHalves(ShiftRight1(crc), CRC_POLY), i + 1)
    ELSE CrcShift(ShiftRight1(crc), i + 1)

\* The while loop over the bytes p[k..]; crc is an unsigned int, its high
\* half never exceeds 16 bits.
RECURSIVE CrcBytes(_, _, _)
CrcBytes(crc, p, k) ==
    IF k > Len(p) \/ crc[2] > 65535 THEN crc
    ELSE CrcBytes(CrcShift(XorHalves(crc, <<p[k], 0>>), 0), p, k + 1)

\* The CRC-32 of the byte sequence p, as four digits, low digit first.
lowzip_zip_crc32(p) ==
    LET crc == CrcBytes(<<65535, 65535>>, p, 1)
        fin == <<65535 - crc[1], 65535 - crc[2]>>
    IN <<fin[1] % 256, fin[1] \div 256, fin[2] % 256, fin[2] \div 256>>

(***************************************************************************)
(* ZIP operations.                                                         *)
(***************************************************************************)
\* st->zip_length, which the caller sets to the length of the input.
zip_length == Len(input)

\* A comparison that takes upper and lower case letters as equal.
FoldCase(ch) == IF ch >= 65 /\ ch <= 90 THEN ch + 32 ELSE ch

RECURSIVE CompareNameFolding(_, _, _, _, _)
CompareNameFolding(m, offset, name, filename_length, i) ==
    IF i >= filename_length THEN [m EXCEPT !.ret = i]
    ELSE IF filename_length - i > 16
    THEN Then(CompareNameFolding(m, offset, name, i + 16, i), LAMBDA r :
         IF r.ret = i + 16
         THEN CompareNameFolding(r, offset, name, filename_length, i + 16)
         ELSE r)
    ELSE Then(lowzip_read1(m, offset + LOWZIP_MIN_CDIRFILE_LENGTH + i), LAMBDA r :
         IF FoldCase(r.ret) # FoldCase(name[i + 1]) THEN [r EXCEPT !.ret = i]
         ELSE CompareNameFolding(r, offset, name, filename_length, i + 1))

\* The name comparison loop of lowzip_locate_file: reads the record's name
\* from byte i on until a byte differs; ret is the final i.  A long name
\* is evaluated sixteen passes at a time.
RECURSIVE CompareName(_, _, _, _, _)
CompareName(m, offset, name, filename_length, i) ==
    IF i >= filename_length THEN [m EXCEPT !.ret = i]
    ELSE IF filename_length - i > 16
    THEN Then(CompareName(m, offset, name, i + 16, i), LAMBDA r :
         IF r.ret = i + 16
         THEN CompareName(r, offset, name, filename_length, i + 16)
         ELSE r)
    ELSE Then(lowzip_read1(m, offset + LOWZIP_MIN_CDIRFILE_LENGTH + i), LAMBDA r :
         IF r.ret # name[i + 1] THEN [r EXCEPT !.ret = i]
         ELSE CompareName(r, offset, name, filename_length, i + 1))

\* The loop storing the first n bytes of the record's name, and the zero
\* stored behind them; ret is the filename array up to and including that
\* zero.  A long name is evaluated sixteen passes at a time.
RECURSIVE CopyFilename(_, _, _, _, _)
CopyFilename(m, offset, n, i, filename) ==
    IF i >= n THEN [m EXCEPT !.ret = filename \o <<0>>]
    ELSE IF n - i > 16
    THEN Then(CopyFilename(m, offset, i + 16, i, filename), LAMBDA r :
         CopyFilename(r, offset, n, i + 16, SubSeq(r.ret, 1, i + 16)))
    ELSE Then(lowzip_read1(m, offset + LOWZIP_MIN_CDIRFILE_LENGTH + i), LAMBDA r :
         Then(filename \o <<r.ret>>, LAMBDA copied :
         CopyFilename(r, offset, n, i + 1, copied)))

\* The part of lowzip_locate_file after "Matching entry found", from the
\* local header magic on; ret is the lowzip_file it fills in.
ReadLocalHeader(m, offset, filename_length, lhdr_offset) ==
    LET r1 == lowzip_read2(m, lhdr_offset + 6)
        r2 == lowzip_read2(r1, lhdr_offset + 8)
        r3 == lowzip_read4(r2, lhdr_offset + 14)
        r4 == lowzip_read4(r3, lhdr_offset + 18)
        r5 == lowzip_read4(r4, lhdr_offset + 22)
        r6 == lowzip_read2(r5, lhdr_offset + 26)
        r7 == lowzip_read2(r6, lhdr_offset + 28)
        n == Min(filename_length, FILENAME_MAX)
        r8 == CopyFilename(r7, offset, n, 0, <<>>)
    IN [r8 EXCEPT !.ret =
          [have_data_descriptor |-> ((r1.ret \div 8) % 2) * 8,
           compression_method |-> r2.ret,
           crc32 |-> r3.ret,
           compressed_size |-> r4.ret,
           uncompressed_size |-> Val(r5.ret),
           data_offset |-> lhdr_offset + LOWZIP_MIN_LOCFILE_LENGTH + r6.ret + r7.ret,
           filename |-> r8.ret]]

\* The data descriptor read of lowzip_get_data; ret is header_crc32.
ReadDescriptorCrc(m) ==
    LET r == lowzip_read4(m, m.read_offset) IN
    IF r.ret = MAGIC_DATADESC THEN lowzip_read4(r, m.read_offset + 4)
    ELSE lowzip_read4(r, m.read_offset)

\* lowzip_get_data from "Delayed error check" on.
GetDataValidate(m, header_crc32, header_uncompressed_size, header_have_data_descriptor) ==
    IF m.have_error = 1 THEN m
    ELSE IF m.output_next # header_uncompressed_size THEN [m EXCEPT !.have_error = 1]
    ELSE LET computed_crc32 == lowzip_zip_crc32(SubSeq(m.output, 1, m.output_next))
             r == IF header_have_data_descriptor # 0 THEN ReadDescriptorCrc(m)
                  ELSE [m EXCEPT !.ret = header_crc32]
         IN IF computed_crc32 # r.ret THEN [r EXCEPT !.have_error = 1] ELSE r

(***************************************************************************)
(* Steps of the inflate engine.                                            *)
(***************************************************************************)
LocNone ==
    [offset |-> 0, offset_end |-> 0, idx |-> 0, arg_idx |-> 0, name |-> <<>>,
     by_name |-> FALSE, blockhdr |-> 0, static_huffman |-> 0, len |-> 0,
     nlit |-> 0, ndist |-> 0, i |-> 0, t |-> 0, header_crc32 |-> <<0, 0, 0, 0>>,
     header_uncompressed_size |-> 0, header_have_data_descriptor |-> 0]

ObsNone ==
    [oob |-> FALSE, bad_store |-> FALSE, late_store |-> FALSE, entry_error |-> 0,
     huff_wrap |-> FALSE, huff_index |-> -1, back_dist |-> 0, back_len |-> 0,
     bad_load |-> FALSE, len_symbol |-> -1, len_index |-> -1,
     dist_symbol |-> -1, dist_index |-> -1]

\* The caller's side of a step inside an operation: nothing of it changes.
Running == UNCHANGED <<input, src, output_cap, central_dir_offset, fi, call,
                       ret, archive_open>>

\* A block loop that goes on decoding with the error flag set.
BlockLoopNoReturn == FALSE

\* if (st->have_error) return; at the top of the block loop.
BlockLoopErrorReturn == have_error = 1

\* One pass of the for loop of lowzip_decode_inflate_blocks, up to the
\* first loop of the block it dispatches to.
InflateBlock ==
    /\ pc = "blocks"
    /\ Running
    /\ IF BlockLoopErrorReturn
       THEN /\ pc' = AfterInflate
            /\ UNCHANGED <<output, output_next, have_error, read_offset, curr,
                           have, scratch, code_lens, loc, obs>>
       ELSE LET h == lowzip_read_bits(Cur, 3)
                blockhdr == h.ret
                btype == blockhdr \div 2
                u == UncompressedHeader(h)
                d == DynamicHeader(h)
            IN CASE btype = 0 ->
                      /\ Commit(u)
                      /\ pc' = IF u.ret = 0 THEN AfterBlock(blockhdr) ELSE "uncompressed"
                      /\ loc' = [loc EXCEPT !.blockhdr = blockhdr, !.len = u.ret]
                 [] btype = 1 ->
                      /\ Commit(h)
                      /\ pc' = "huffman"
                      /\ loc' = [loc EXCEPT !.blockhdr = blockhdr, !.static_huffman = 1]
                 [] btype = 2 ->
                      /\ Commit(d)
                      /\ pc' = IF d.have_error = 1 THEN AfterBlock(blockhdr) ELSE "codelens"
                      /\ loc' = [loc EXCEPT !.blockhdr = blockhdr, !.static_huffman = 0,
                                            !.nlit = d.ret[1], !.ndist = d.ret[2], !.i = 0]
                 [] OTHER ->
                      /\ Commit([h EXCEPT !.have_error = 1])
                      /\ pc' = AfterBlock(blockhdr)
                      /\ loc' = [loc EXCEPT !.blockhdr = blockhdr]

\* One pass of the copy loop of lowzip_decode_uncompressed_block.
UncompressedCopy ==
    /\ pc = "uncompressed"
    /\ Running
    /\ Commit(UncompressedCopyByte(Cur))
    /\ loc' = [loc EXCEPT !.len = @ - 1]
    /\ pc' = IF loc.len - 1 = 0 THEN AfterBlock(loc.blockhdr) ELSE "uncompressed"

\* One pass of the code length loop of lowzip_decode_dynamic_huffman_block;
\* the pass that completes the sequence goes on to prepare the two tables.
DynamicCodeLength ==
    /\ pc = "codelens"
    /\ Running
    /\ LET total == loc.nlit + loc.ndist
           p == DynamicCodeLengthPass(Cur, loc.i, total)
           t == DynamicPrepareTables(p, loc.nlit, loc.ndist)
       IN IF p.ret = -1
          THEN /\ Commit(p)
               /\ pc' = AfterBlock(loc.blockhdr)
               /\ loc' = loc
          ELSE IF p.ret # total
          THEN /\ Commit(p)
               /\ pc' = "codelens"
               /\ loc' = [loc EXCEPT !.i = p.ret]
          ELSE /\ Commit(t)
               /\ pc' = IF t.ret = 1 THEN "huffman" ELSE AfterBlock(loc.blockhdr)
               /\ loc' = [loc EXCEPT !.i = p.ret]

\* A symbol loop that goes on after an error.
HuffmanNoBreak == FALSE

\* if (st->have_error) break; at the top of the symbol loop.
HuffmanErrorBreak == have_error = 1

\* One pass of the for loop of lowzip_decode_huffman_block_data.
HuffmanSymbol ==
    /\ pc = "huffman"
    /\ Running
    /\ loc' = loc
    /\ IF HuffmanErrorBreak
       THEN /\ pc' = AfterBlock(loc.blockhdr)
            /\ UNCHANGED <<output, output_next, have_error, read_offset, curr,
                           have, scratch, code_lens, obs>>
       ELSE LET s == HuffmanSymbolPass(Cur, loc.static_huffman) IN
            /\ Commit(s)
            /\ pc' = IF s.ret = 0 THEN "huffman" ELSE AfterBlock(loc.blockhdr)

\* lowzip_inflate_raw as extract_raw_inflate of the test program calls it:
\* read_offset and the output window are set up, then the bit state is reset.
CallInflateRaw ==
    /\ pc = "idle"
    /\ src.kind = "raw"
    /\ call = "none"
    /\ call' = "inflate_raw"
    /\ pc' = "blocks"
    /\ read_offset' = 0
    /\ output' = [k \in 1..output_cap |-> 0]
    /\ output_next' = 0
    /\ have' = 0
    /\ obs' = [ObsNone EXCEPT !.entry_error = have_error]
    /\ loc' = LocNone
    /\ UNCHANGED <<input, src, output_cap, central_dir_offset, have_error, curr,
                   scratch, code_lens, fi, ret, archive_open>>

(***************************************************************************)
(* Steps of the ZIP operations.                                            *)
(***************************************************************************)
\* A scan that accepts every occurrence of the magic.
EocdAnyLength(offset, comment_length) == TRUE

\* The comment length test of lowzip_init_archive, passed when TRUE.
EocdLengthMatches(offset, comment_length) ==
    offset + LOWZIP_MIN_EOCDIR_LENGTH + comment_length = zip_length

\* lowzip_init_archive up to its loop.
CallInitArchive ==
    /\ pc = "idle"
    /\ src.kind = "zip"
    /\ call' = "init_archive"
    /\ pc' = "init_scan"
    /\ have_error' = 0
    /\ loc' = [LocNone EXCEPT !.offset = zip_length - LOWZIP_MIN_EOCDIR_LENGTH]
    /\ obs' = [ObsNone EXCEPT !.entry_error = have_error]
    /\ archive_open' = FALSE
    /\ ret' = "none"
    /\ UNCHANGED <<input, src, output_cap, output, output_next, central_dir_offset,
                   read_offset, curr, have, scratch, code_lens, fi>>

\* One pass of the for loop of lowzip_init_archive, its condition first;
\* when the loop is left, the "Not found" exit.
InitArchiveScan ==
    /\ pc = "init_scan"
    /\ UNCHANGED <<input, src, output_cap, fi, call, ret>>
    /\ LET offset == loc.offset
           r1 == lowzip_read4(Cur, offset)
           r2 == lowzip_read2(r1, offset + 20)
           r3 == lowzip_read4(r2, offset + 16)
       IN IF ~(offset >= zip_length - LOWZIP_MAX_EOCDIR_LENGTH) \/ have_error = 1
          THEN /\ Commit([Cur EXCEPT !.have_error = 1])
               /\ pc' = "idle"
               /\ UNCHANGED <<central_dir_offset, archive_open, loc>>
          ELSE IF r1.ret # MAGIC_EOCDIR
          THEN /\ Commit(r1)
               /\ pc' = "init_scan"
               /\ loc' = [loc EXCEPT !.offset = offset - 1]
               /\ UNCHANGED <<central_dir_offset, archive_open>>
          ELSE IF ~EocdLengthMatches(offset, r2.ret)
          THEN /\ Commit(r2)
               /\ pc' = "init_scan"
               /\ loc' = [loc EXCEPT !.offset = offset - 1]
               /\ UNCHANGED <<central_dir_offset, archive_open>>
          ELSE /\ Commit(r3)
               /\ central_dir_offset' = Val(r3.ret)
               /\ archive_open' = (r3.have_error = 0)
               /\ pc' = "idle"
               /\ loc' = loc

\* A skip that forgets the filename.
NextRecordOffsetFixed(offset, filename_length, extra_length, comment_length) ==
    offset + LOWZIP_MIN_CDIRFILE_LENGTH + extra_length + comment_length

\* The offset of the record after a record that did not match:
\* t = filename_length + extra length + comment length; offset += 46 + t.
NextRecordOffset(offset, filename_length, extra_length, comment_length) ==
    offset + LOWZIP_MIN_CDIRFILE_LENGTH + filename_length + extra_length
    + comment_length

\* lowzip_locate_file up to its loop, for an index (name = NULL) or a name.
CallLocateFile ==
    /\ pc = "idle"
    /\ src.kind = "zip"
    /\ archive_open
    /\ \E by_name \in BOOLEAN, idx \in 0..MaxIdx, name \in Names :
          /\ (by_name => idx = 0)
          /\ (~by_name => name = <<>>)
          /\ (by_name => name # <<>>)
          /\ loc' = [LocNone EXCEPT !.offset = central_dir_offset, !.idx = idx,
                                    !.arg_idx = idx, !.name = name,
                                    !.by_name = by_name]
    /\ call' = "locate_file"
    /\ pc' = "locate"
    /\ have_error' = 0
    /\ obs' = [ObsNone EXCEPT !.entry_error = have_error]
    /\ ret' = "none"
    /\ UNCHANGED <<input, src, output_cap, output, output_next, central_dir_offset,
                   read_offset, curr, have, scratch, code_lens, fi, archive_open>>

\* One pass of the for loop of lowzip_locate_file.
LocateFileScan ==
    /\ pc = "locate"
    /\ UNCHANGED <<input, src, output_cap, central_dir_offset, call, archive_open>>
    /\ LET offset == loc.offset
           r1 == lowzip_read4(Cur, offset)
           r2 == lowzip_read2(r1, offset + 28)
           filename_length == r2.ret
           c == IF loc.by_name /\ filename_length = Len(loc.name)
                THEN CompareName(r2, offset, loc.name, filename_length, 0)
                ELSE r2
           found == IF loc.by_name
                    THEN filename_length = Len(loc.name) /\ c.ret = filename_length
                    ELSE loc.idx = 0
           idx == IF loc.by_name THEN loc.idx ELSE loc.idx - 1
           s1 == lowzip_read2(c, offset + 30)
           s2 == lowzip_read2(s1, offset + 32)
           l1 == lowzip_read4(c, offset + 42)
           lhdr_offset == Val(l1.ret)
           l2 == lowzip_read4(l1, lhdr_offset)
           l3 == ReadLocalHeader(l2, offset, filename_length, lhdr_offset)
       IN IF r1.ret # MAGIC_CDIRFILE
          THEN /\ Commit([r1 EXCEPT !.have_error = 1])
               /\ ret' = "NULL"
               /\ pc' = "idle"
               /\ UNCHANGED <<fi, loc>>
          ELSE IF ~found
          THEN /\ Commit(s2)
               /\ loc' = [loc EXCEPT !.idx = idx,
                                     !.offset = NextRecordOffset(offset, filename_length,
                                                                 s1.ret, s2.ret)]
               /\ pc' = "locate"
               /\ UNCHANGED <<fi, ret>>
          ELSE IF l2.ret # MAGIC_LOCFILE
          THEN /\ Commit([l2 EXCEPT !.have_error = 1])
               /\ ret' = "NULL"
               /\ pc' = "idle"
               /\ loc' = [loc EXCEPT !.idx = idx]
               /\ fi' = fi
          ELSE /\ Commit(l3)
               /\ fi' = l3.ret
               /\ ret' = "fi"
               /\ pc' = "idle"
               /\ loc' = [loc EXCEPT !.idx = idx]

\* lowzip_get_data up to the STORE loop or to the block loop of the inflate
\* engine, as extract_located_file calls it on a located entry: the caller
\* provides a fresh output window of cap bytes.
CallGetData ==
    /\ pc = "idle"
    /\ src.kind = "zip"
    /\ call = "locate_file"
    /\ ret = "fi"
    /\ \E cap \in (0..MaxCap) \cup ({fi.uncompressed_size} \cap (0..MaxAlloc)) :
          /\ output_cap' = cap
          /\ output' = [k \in 1..cap |-> 0]
    /\ output_next' = 0
    /\ call' = "get_data"
    /\ obs' = [ObsNone EXCEPT !.entry_error = have_error]
    /\ loc' = [LocNone EXCEPT
                  !.header_crc32 = fi.crc32,
                  !.header_uncompressed_size = fi.uncompressed_size,
                  !.header_have_data_descriptor = fi.have_data_descriptor,
                  !.offset = fi.data_offset,
                  !.offset_end = fi.data_offset + fi.uncompressed_size]
    /\ have_error' = IF fi.compression_method \in {LOWZIP_COMPRESSION_STORE,
                                                   LOWZIP_COMPRESSION_DEFLATE}
                     THEN 0 ELSE 1
    /\ read_offset' = IF fi.compression_method = LOWZIP_COMPRESSION_DEFLATE
                      THEN fi.data_offset ELSE read_offset
    /\ have' = IF fi.compression_method = LOWZIP_COMPRESSION_DEFLATE THEN 0 ELSE have
    /\ pc' = IF fi.compression_method = LOWZIP_COMPRESSION_STORE THEN "store"
             ELSE IF fi.compression_method = LOWZIP_COMPRESSION_DEFLATE THEN "blocks"
             ELSE "idle"
    /\ UNCHANGED <<input, src, central_dir_offset, curr, scratch, code_lens, fi,
                   ret, archive_open>>

\* One pass of the STORE loop of lowzip_get_data, its condition first.
StoreCopy ==
    /\ pc = "store"
    /\ Running
    /\ IF ~(loc.offset < loc.offset_end)
       THEN /\ pc' = "validate"
            /\ UNCHANGED <<output, output_next, have_error, read_offset, curr,
                           have, scratch, code_lens, loc, obs>>
       ELSE IF have_error = 1
       THEN /\ pc' = "idle"
            /\ UNCHANGED <<output, output_next, have_error, read_offset, curr,
                           have, scratch, code_lens, loc, obs>>
       ELSE LET r == lowzip_read1(Cur, loc.offset) IN
            /\ Commit(lowzip_write_byte(r, r.ret))
            /\ loc' = [loc EXCEPT !.offset = @ + 1]
            /\ pc' = "store"

\* lowzip_get_data from "Delayed error check" to its return.
GetDataFinish ==
    /\ pc = "validate"
    /\ Running
    /\ Commit(GetDataValidate(Cur, loc.header_crc32, loc.header_uncompressed_size,
                              loc.header_have_data_descriptor))
    /\ pc' = "idle"
    /\ loc' = loc

(***************************************************************************)
(* Inputs: DEFLATE streams built bit by bit, as an encoder emits them      *)
(* (RFC 1951: fields least significant bit first, Huffman codes most       *)
(* significant bit first, bytes filled from bit 0 upwards).                *)
(***************************************************************************)
RECURSIVE MsbBits(_, _)
MsbBits(v, n) == IF n = 0 THEN <<>> ELSE MsbBits(v \div 2, n - 1) \o <<v % 2>>

RECURSIVE PackBits(_)
PackBits(bits) ==
    IF Len(bits) = 0 THEN <<>>
    ELSE IF Len(bits) < 8 THEN <<BitsVal(bits)>>
    ELSE <<BitsVal(SubSeq(bits, 1, 8))>> \o PackBits(SubSeq(bits, 9, Len(bits)))

RECURSIVE BytesBits(_)
BytesBits(bytes) ==
    IF Len(bytes) = 0 THEN <<>> ELSE LsbBits(bytes[1], 8) \o BytesBits(Tail(bytes))

\* bits, filled up to the next byte boundary with the bit pad.
PadBits(bits, pad) == bits \o [k \in 1..((8 - (Len(bits) % 8)) % 8) |-> pad]

LE2(v) == <<v % 256, v \div 256>>

\* An uncompressed block appended to the stream so far.
StoredBlock(sofar, final, pad, data) ==
    PadBits(sofar \o <<final>> \o LsbBits(0, 2), pad)
    \o BytesBits(LE2(Len(data)) \o LE2(65535 - Len(data)) \o data)

\* The code of a literal/length symbol in the fixed code of RFC 1951 3.2.6.
StaticSym(s) ==
    IF s <= 143 THEN MsbBits(48 + s, 8)
    ELSE IF s <= 255 THEN MsbBits(400 + (s - 144), 9)
    ELSE IF s <= 279 THEN MsbBits(s - 256, 7)
    ELSE MsbBits(192 + (s - 280), 8)

StaticDist(d) == MsbBits(d, 5)

StaticHeader(final) == <<final>> \o LsbBits(1, 2)

\* "AB", then length 3 at distance 2: "ABABA".
StaticABABA(final) ==
    StaticHeader(final) \o StaticSym(65) \o StaticSym(66) \o StaticSym(257)
    \o StaticDist(1) \o StaticSym(256)

\* 'A', then length 11 (symbol 265, one extra bit 0) at distance 1.
StaticRun(final) ==
    StaticHeader(final) \o StaticSym(65) \o StaticSym(265) \o <<0>>
    \o StaticDist(0) \o StaticSym(256)

\* 'A', then the longest length there is at distance 1: symbol 285 (258,
\* no extra bits), or symbol 284 with its five extra bits all set (227 + 31).
PayloadLongRun == [k \in 1..259 |-> 65]

StaticLongRun(final) ==
    StaticHeader(final) \o StaticSym(65) \o StaticSym(285) \o StaticDist(0)
    \o StaticSym(256)

StaticLongRunExtra(final) ==
    StaticHeader(final) \o StaticSym(65) \o StaticSym(284) \o LsbBits(31, 5)
    \o StaticDist(0) \o StaticSym(256)

\* "AB", then length 5 (symbol 259) at distance 2: the copy overlaps what
\* it writes.
PayloadOverlap == <<65, 66, 65, 66, 65, 66, 65>>

StaticOverlap(final) ==
    StaticHeader(final) \o StaticSym(65) \o StaticSym(66) \o StaticSym(259)
    \o StaticDist(1) \o StaticSym(256)

\* "A", then length 3 at the largest distance there is: code 29 with its
\* thirteen extra bits all set (24577 + 8191).
StaticFarthest(final) ==
    StaticHeader(final) \o StaticSym(65) \o StaticSym(257) \o StaticDist(29)
    \o LsbBits(8191, 13) \o StaticSym(256)

\* "A", then length 3 at distance 5 (code 4, one extra bit 0): too far back.
StaticTooFar(final) ==
    StaticHeader(final) \o StaticSym(65) \o StaticSym(257) \o StaticDist(4)
    \o <<0>> \o StaticSym(256)

\* A dynamic block: HLIT = 1 (258 codes), HDIST = 0, HCLEN = 14 (18 code
\* length codes).  Code length alphabet: 18 -> "0", 1 -> "10", 2 -> "11".
\* Literal/length code: 'A' -> "0", 256 -> "10", 257 -> "11"; distance 0 -> "0".
\* Data: 'A', length 3 at distance 1, end of block: "AAAA".
DynamicCodelenLens ==
    [k \in 1..18 |-> IF k = 3 THEN 1 ELSE IF k \in {16, 18} THEN 2 ELSE 0]

RECURSIVE Bits3(_)
Bits3(lens) == IF Len(lens) = 0 THEN <<>> ELSE LsbBits(lens[1], 3) \o Bits3(Tail(lens))

DynamicAAAA(final) ==
    <<final>> \o LsbBits(2, 2) \o LsbBits(1, 5) \o LsbBits(0, 5) \o LsbBits(14, 4)
    \o Bits3(DynamicCodelenLens)
    \o <<0>> \o LsbBits(54, 7)         \* 65 zeros
    \o <<1, 0>>                        \* 'A': 1
    \o <<0>> \o LsbBits(127, 7)        \* 138 zeros
    \o <<0>> \o LsbBits(41, 7)         \* 52 zeros
    \o <<1, 1>> \o <<1, 1>>            \* 256: 2, 257: 2
    \o <<1, 0>>                        \* distance 0: 1
    \o <<0>> \o <<1, 1>> \o <<0>> \o <<1, 0>>

\* The same header with HLIT = 0: the code lengths run past nlit + ndist.
DynamicOverrun(final) ==
    <<final>> \o LsbBits(2, 2) \o LsbBits(0, 5) \o LsbBits(0, 5) \o LsbBits(14, 4)
    \o Bits3(DynamicCodelenLens)
    \o <<0>> \o LsbBits(54, 7) \o <<1, 0>> \o <<0>> \o LsbBits(127, 7)
    \o <<0>> \o LsbBits(127, 7)

\* A dynamic block with HLIT = 31 (288 literal/length codes, every one of
\* them used), HDIST = 0, HCLEN = 5.  Code length alphabet: 9 -> "0",
\* 10 -> "10", 16 -> "11".  Literal/length code: 'A' and 256 have ten bits
\* (codes 572 and 573), the other 286 symbols nine; distance 0 has nine.
\* Data: 'A', end of block.
WideCodelenLens == [k \in 1..9 |-> IF k = 1 THEN 2 ELSE IF k = 7 THEN 1
                                   ELSE IF k = 9 THEN 2 ELSE 0]

\* The code length 9 written count times: once, then repeated by symbol 16.
RECURSIVE Nines(_)
Nines(count) ==
    IF count = 0 THEN <<>>
    ELSE IF count >= 7 THEN Nines(count - 6) \o <<1, 1>> \o LsbBits(3, 2)
    ELSE IF count >= 4 THEN <<0>> \o <<1, 1>> \o LsbBits(count - 4, 2)
    ELSE <<0>> \o Nines(count - 1)

DynamicWide(final) ==
    <<final>> \o LsbBits(2, 2) \o LsbBits(31, 5) \o LsbBits(0, 5) \o LsbBits(5, 4)
    \o Bits3(WideCodelenLens)
    \o Nines(65) \o <<1, 0>> \o Nines(190) \o <<1, 0>> \o Nines(32)
    \o MsbBits(572, 10) \o MsbBits(573, 10)

Stream(bits, payload, conformant, pad) ==
    [bytes |-> PackBits(bits), payload |-> payload, conformant |-> conformant,
     pad |-> pad, tail |-> 0]

\* A conformant stream with other bytes behind its final block.
StreamTail(bits, payload, tail) ==
    [bytes |-> PackBits(bits) \o tail, payload |-> payload, conformant |-> TRUE,
     pad |-> 0, tail |-> Len(tail)]

\* A non-final uncompressed block "A" whose five ignored bits are 1,0,0,0,0,
\* then a non-final static block "ABABA", then a final uncompressed "C".
PadOneThreeBlocks ==
    StoredBlock(<<0, 0, 0, 1, 0, 0, 0, 0>>
                \o BytesBits(LE2(1) \o LE2(65534) \o <<65>>)
                \o StaticABABA(0), 1, 0, <<67>>)

\* The conformant streams and some that are not; pad is the value of the
\* ignored bits before an uncompressed block.
RawStreams ==
    {Stream(StaticABABA(1), <<65, 66, 65, 66, 65>>, TRUE, 0),
     Stream(StaticRun(1), [k \in 1..12 |-> 65], TRUE, 0),
     Stream(StaticOverlap(1), PayloadOverlap, TRUE, 0),
     Stream(StaticLongRun(1), PayloadLongRun, TRUE, 0),
     Stream(StaticLongRunExtra(1), PayloadLongRun, TRUE, 0),
     Stream(DynamicAAAA(1), <<65, 65, 65, 65>>, TRUE, 0),
     Stream(DynamicAAAA(0) \o StaticABABA(1), <<65, 65, 65, 65, 65, 66, 65, 66, 65>>, TRUE, 0),
     Stream(StaticTooFar(1), <<>>, FALSE, 0),
     Stream(StaticFarthest(1), <<>>, FALSE, 0),
     Stream(DynamicOverrun(1), <<>>, FALSE, 0),
     Stream(DynamicWide(1), <<65>>, FALSE, 0),
     Stream(<<1, 1, 1>>, <<>>, FALSE, 0),
     Stream(StaticHeader(1) \o StaticSym(286) \o StaticSym(256), <<>>, FALSE, 0),
     Stream(StaticHeader(1) \o StaticSym(65) \o StaticSym(257) \o StaticDist(30)
            \o StaticSym(256), <<>>, FALSE, 0),
     Stream(BytesBits(<<1, 1, 0, 1, 0, 65>>), <<>>, FALSE, 0),
     Stream(PadOneThreeBlocks, <<65, 65, 66, 65, 66, 65, 67>>, TRUE, 1),
     StreamTail(StaticABABA(1), <<65, 66, 65, 66, 65>>, <<255, 255>>),
     StreamTail(StoredBlock(<<>>, 1, 0, <<65>>), <<65>>, <<3>>)}
    \cup {Stream(StoredBlock(StoredBlock(<<>>, 0, pad, <<65>>), 1, pad, <<66, 67>>),
                 <<65, 66, 67>>, TRUE, pad) : pad \in {0, 1}}
    \cup {Stream(StoredBlock(StaticABABA(0), 1, pad, <<67>>),
                 <<65, 66, 65, 66, 65, 67>>, TRUE, pad) : pad \in {0, 1}}
    \cup {Stream(StoredBlock(<<>>, 0, pad, <<>>) \o StaticABABA(1),
                 <<65, 66, 65, 66, 65>>, TRUE, pad) : pad \in {0, 1}}

\* Every stream and every truncation of it.
RawInputs ==
    UNION {{[bytes |-> SubSeq(s.bytes, 1, n), payload |-> s.payload,
             conformant |-> s.conformant /\ n >= Len(s.bytes) - s.tail,
             pad |-> s.pad,
             tail |-> IF n >= Len(s.bytes) - s.tail
                      THEN n - (Len(s.bytes) - s.tail) ELSE 0] :
               n \in 0..Len(s.bytes)} : s \in RawStreams}

\* The windows a raw inflate of the stream s is given.
RawCaps(s) ==
    (0..MaxCap) \cup {MaxRawCap}
    \cup (IF Len(s.payload) > MaxRawCap THEN {Len(s.payload), LongRunCap} ELSE {})

FiNone ==
    [have_data_descriptor |-> 0, compression_method |-> 0,
     crc32 |-> <<0, 0, 0, 0>>, compressed_size |-> <<0, 0, 0, 0>>,
     uncompressed_size |-> 0, data_offset |-> 0, filename |-> <<0>>]

\* The state the test program sets up before a raw inflate: the lowzip_state
\* zeroed by memset (have_error may have been left set by the caller), the
\* whole file as input.
InitRaw ==
    /\ \E s \in RawInputs :
          /\ input = s.bytes
          /\ src = [kind |-> "raw", conformant |-> s.conformant, payload |-> s.payload,
                    pad |-> s.pad, tail |-> s.tail]
          /\ output_cap \in RawCaps(s)
    /\ output = [k \in 1..output_cap |-> 0]
    /\ output_next = 0
    /\ central_dir_offset = 0
    /\ have_error \in {0, 1}
    /\ read_offset = 0
    /\ curr = 0
    /\ have = 0
    /\ scratch = [k \in 0..349 |-> 0]
    /\ code_lens = [k \in 1..320 |-> 0]
    /\ fi = FiNone
    /\ pc = "idle"
    /\ call = "none"
    /\ loc = LocNone
    /\ ret = "none"
    /\ archive_open = FALSE
    /\ obs = ObsNone

(***************************************************************************)
(* Inputs: ZIP archives built record by record (APPNOTE 4.3.7, 4.3.9,      *)
(* 4.3.12, 4.3.16).                                                        *)
(***************************************************************************)
LE4(v) == <<v % 256, (v \div 256) % 256, (v \div 65536) % 256, v \div 16777216>>

\* An entry to be archived: data is what follows the local header (the
\* file data and, with flag bit 3, the data descriptor); crc and usize are
\* what the headers say.
Entry(name, flags, method, crc, csize, usize, data) ==
    [name |-> name, flags |-> flags, method |-> method, crc |-> crc,
     csize |-> csize, usize |-> usize, data |-> data]

LocalHeader(e) ==
    MAGIC_LOCFILE \o LE2(20) \o LE2(e.flags) \o LE2(e.method) \o LE4(0)
    \o e.crc \o LE4(e.csize) \o LE4(e.usize) \o LE2(Len(e.name)) \o LE2(0)
    \o e.name

CdirRecord(e, lhdr_offset) ==
    MAGIC_CDIRFILE \o LE2(20) \o LE2(20) \o LE2(e.flags) \o LE2(e.method)
    \o LE4(0) \o e.crc \o LE4(e.csize) \o LE4(e.usize) \o LE2(Len(e.name))
    \o LE2(0) \o LE2(0) \o LE2(0) \o LE2(0) \o LE4(0) \o LE4(lhdr_offset)
    \o e.name

Eocd(count, cdir_size, cdir_offset, comment) ==
    MAGIC_EOCDIR \o LE2(0) \o LE2(0) \o LE2(count) \o LE2(count)
    \o LE4(cdir_size) \o LE4(cdir_offset) \o LE2(Len(comment)) \o comment

\* The local headers with their data, one after another, from offset base.
RECURSIVE LocalPart(_)
LocalPart(entries) ==
    IF Len(entries) = 0 THEN <<>>
    ELSE LocalHeader(entries[1]) \o entries[1].data \o LocalPart(Tail(entries))

\* The central directory of entries whose local part starts at offset base.
RECURSIVE CdirPart(_, _)
CdirPart(entries, base) ==
    IF Len(entries) = 0 THEN <<>>
    ELSE CdirRecord(entries[1], base)
         \o CdirPart(Tail(entries),
                     base + Len(LocalHeader(entries[1])) + Len(entries[1].data))

\* preamble, local part, central directory, end record claiming count entries.
Archive(preamble, entries, count, comment) ==
    LET locals == LocalPart(entries)
        cdir == CdirPart(entries, Len(preamble))
    IN preamble \o locals \o cdir
       \o Eocd(count, Len(cdir), Len(preamble) + Len(locals), comment)

Stored(name, flags, payload, crc, usize, descriptor) ==
    Entry(name, flags, LOWZIP_COMPRESSION_STORE, crc, Len(payload), usize,
          payload \o descriptor)

Deflated(name, flags, bits, payload, crc, usize, descriptor) ==
    Entry(name, flags, LOWZIP_COMPRESSION_DEFLATE, crc, Len(PackBits(bits)), usize,
          PackBits(bits) \o descriptor)

PayloadHi == <<104, 105>>
PayloadABABA == <<65, 66, 65, 66, 65>>
PayloadAAAABC == <<65, 65, 65, 65, 66, 67>>
BitsAAAABC == StoredBlock(DynamicAAAA(0), 1, 0, <<66, 67>>)

\* A comment holding the end record's magic followed by junk.
CommentWithMagic == MAGIC_EOCDIR \o [k \in 1..18 |-> 33]

\* Three sound entries: stored, deflated with a data descriptor (sizes also
\* in the local header), deflated in two blocks.
ArchiveSound ==
    Archive(<<>>,
        <<Stored(<<97>>, 0, PayloadHi, lowzip_zip_crc32(PayloadHi), 2, <<>>),
          Deflated(<<98>>, 8, StaticABABA(1), PayloadABABA, LE4(0), 5,
                   MAGIC_DATADESC \o lowzip_zip_crc32(PayloadABABA) \o LE4(7) \o LE4(5)),
          Deflated(<<99>>, 0, BitsAAAABC, PayloadAAAABC,
                   lowzip_zip_crc32(PayloadAAAABC), 6, <<>>)>>,
        3, CommentWithMagic)

\* Entries that must not extract: wrong CRC, unknown method, wrong size,
\* a descriptor without signature holding a wrong CRC; the end record
\* claims five entries.
ArchiveBad ==
    Archive(<<>>,
        <<Stored(<<97>>, 0, PayloadHi, LE4(1), 2, <<>>),
          Entry(<<98>>, 0, 1, lowzip_zip_crc32(PayloadHi), 2, 2, PayloadHi),
          Deflated(<<99>>, 0, StaticABABA(1), PayloadABABA,
                   lowzip_zip_crc32(PayloadABABA), 6, <<>>),
          Deflated(<<100>>, 8, StaticABABA(1), PayloadABABA, LE4(0), 5,
                   LE4(2) \o LE4(7) \o LE4(5))>>,
        5, <<>>)

\* A stored entry with a data descriptor whose CRC is wrong, in an archive
\* that starts with four other bytes (here the CRC of the payload).
ArchiveStoredDescriptor ==
    Archive(lowzip_zip_crc32(PayloadHi),
        <<Stored(<<97>>, 8, PayloadHi, LE4(0), 2,
                 MAGIC_DATADESC \o LE4(3) \o LE4(2) \o LE4(2))>>,
        1, <<>>)

\* Only the end record.
ArchiveEmpty == Archive(<<>>, <<>>, 0, <<>>)

\* An archive whose only entry lies in the comment of the end record, at
\* the very end of the file: central directory at 0, end record behind it.
ArchiveTail(e, tail) ==
    LET cdir == CdirRecord(e, 47 + LOWZIP_MIN_EOCDIR_LENGTH)
    IN cdir \o Eocd(1, Len(cdir), 0, LocalHeader(e) \o tail)

\* Stored, four bytes announced and two present.
ArchiveTailStored ==
    ArchiveTail(Stored(<<97>>, 0, PayloadHi, lowzip_zip_crc32(PayloadHi), 4, <<>>),
                PayloadHi)

\* Deflated, the stream cut after its second byte.
ArchiveTailDeflated ==
    ArchiveTail(Deflated(<<97>>, 0, StaticABABA(1), PayloadABABA,
                         lowzip_zip_crc32(PayloadABABA), 5, <<>>),
                SubSeq(PackBits(StaticABABA(1)), 1, 2))

\* A valid archive with one stored entry "a" whose 69 bytes of file data
\* are themselves a central directory record (name "b", local header at
\* 90) followed by an end record (central directory at 31) whose size
\* field holds the bytes of a local header magic.
NestedPayload ==
    CdirRecord(Entry(<<98>>, 0, 0, LE4(0), 0, 0, <<>>), 90)
    \o MAGIC_EOCDIR \o LE2(0) \o LE2(0) \o LE2(1) \o LE2(1) \o MAGIC_LOCFILE
    \o LE4(31) \o LE2(0)

ArchiveNested ==
    Archive(<<>>,
        <<Stored(<<97>>, 0, NestedPayload, lowzip_zip_crc32(NestedPayload),
                 Len(NestedPayload), <<>>)>>,
        1, <<>>)

\* One stored entry "a"; the central directory lies in the comment of the
\* end record, which claims five entries: one whole record and the first
\* ten bytes of a second one, cut by the end of the file.
EntryCutDirectory ==
    Stored(<<97>>, 0, PayloadHi, lowzip_zip_crc32(PayloadHi), 2, <<>>)

ArchiveCutDirectory ==
    LET locals == LocalPart(<<EntryCutDirectory>>)
        record == CdirRecord(EntryCutDirectory, 0)
    IN locals \o Eocd(5, 2 * Len(record), Len(locals) + LOWZIP_MIN_EOCDIR_LENGTH,
                      record \o SubSeq(record, 1, 10))

\* Names that differ in case, in length and not at all: "A", "ab", "a",
\* "a" again with other data, and a name of 256 bytes.
PayloadIh == <<105, 104>>

ArchiveNames ==
    Archive(<<>>,
        <<Stored(<<65>>, 0, PayloadHi, lowzip_zip_crc32(PayloadHi), 2, <<>>),
          Stored(<<97, 98>>, 0, PayloadHi, lowzip_zip_crc32(PayloadHi), 2, <<>>),
          Stored(<<97>>, 0, PayloadHi, lowzip_zip_crc32(PayloadHi), 2, <<>>),
          Stored(<<97>>, 0, PayloadIh, lowzip_zip_crc32(PayloadIh), 2, <<>>),
          Stored(LongName, 0, PayloadHi, lowzip_zip_crc32(PayloadHi), 2, <<>>)>>,
        5, <<>>)

\* Whole archives, valid or not.
ZipArchives ==
    {ArchiveSound, ArchiveBad, ArchiveStoredDescriptor, ArchiveTailStored,
     ArchiveTailDeflated, ArchiveCutDirectory, ArchiveNames}

\* Archives of which every prefix is an input too.
ZipTruncated == {ArchiveNested, ArchiveEmpty}

ZipInputs ==
    ZipArchives \cup UNION {{SubSeq(a, 1, n) : n \in 0..Len(a)} : a \in ZipTruncated}

\* The state the test program sets up before lowzip_init_archive: the
\* lowzip_state zeroed by memset, zip_length the length of the file.
InitZip ==
    /\ input \in ZipInputs
    /\ src = [kind |-> "zip", conformant |-> input \in ZipTruncated \cup {ArchiveSound},
              payload |-> <<>>, pad |-> 0, tail |-> 0]
    /\ output_cap = 0
    /\ output = <<>>
    /\ output_next = 0
    /\ central_dir_offset = 0
    /\ have_error = 0
    /\ read_offset = 0
    /\ curr = 0
    /\ have = 0
    /\ scratch = [k \in 0..349 |-> 0]
    /\ code_lens = [k \in 1..320 |-> 0]
    /\ fi = FiNone
    /\ pc = "idle"
    /\ call = "none"
    /\ loc = LocNone
    /\ ret = "none"
    /\ archive_open = FALSE
    /\ obs = ObsNone

(***************************************************************************)
(* The program: the caller's operations and the steps inside them.         *)
(***************************************************************************)
Init == InitRaw \/ InitZip

Next ==
    \/ CallInflateRaw
    \/ InflateBlock
    \/ UncompressedCopy
    \/ DynamicCodeLength
    \/ HuffmanSymbol
    \/ CallInitArchive
    \/ InitArchiveScan
    \/ CallLocateFile
    \/ LocateFileScan
    \/ CallGetData
    \/ StoreCopy
    \/ GetDataFinish

Spec == Init /\ [][Next]_vars

(***************************************************************************)
(* Properties.                                                             *)
(***************************************************************************)
\* The operation op has returned to the caller.
Returned(op) == pc = "idle" /\ call = op

\* The n input bytes at offset p, 0x100 standing for a byte that is not there.
InputBytes(p, n) == [k \in 1..n |-> ReadCallback(p + k - 1)]

\* The bytes written: [output_start, output_next).
Written == SubSeq(output, 1, output_next)

\* C1: during and after lowzip_inflate_raw and lowzip_get_data the cursor
\* stays inside the window, output_start <= output_next <= output_end, and
\* every byte stored (lowzip_write_byte, the uncompressed copy, the STORE
\* copy, the back-reference copy) lands inside [output_start, output_end).
OutputStaysInWindow ==
    /\ ~obs.bad_store
    /\ 0 <= output_next
    /\ output_next <= output_cap
    /\ Len(output) = output_cap

\* A window was filled to its last byte and the next write was refused.
WindowFilledAndRefused ==
    /\ pc = "idle"
    /\ call \in {"inflate_raw", "get_data"}
    /\ output_cap > 0
    /\ output_next = output_cap
    /\ have_error = 1
    /\ ~obs.oob

\* The first byte after the located entry's data: after the bytes the STORE
\* copy takes, or after the compressed bytes the local header announces.
EntryDataEnd ==
    fi.data_offset + (IF fi.compression_method = LOWZIP_COMPRESSION_STORE
                      THEN fi.uncompressed_size
                      ELSE Val(fi.compressed_size))

\* The CRC the entry's headers give for it: the local header's, or with
\* flag bit 3 the data descriptor's (behind its optional signature).
AuthoritativeCrc ==
    IF fi.have_data_descriptor = 0 THEN fi.crc32
    ELSE IF InputBytes(EntryDataEnd, 4) = MAGIC_DATADESC
    THEN InputBytes(EntryDataEnd + 4, 4)
    ELSE InputBytes(EntryDataEnd, 4)

\* C2: whenever lowzip_get_data returns with have_error = 0, the number of
\* bytes written equals the entry's uncompressed_size and their CRC-32
\* equals the authoritative CRC (local header, or data descriptor when the
\* flag is set).
GetDataSuccessIsValidated ==
    (Returned("get_data") /\ have_error = 0)
    => /\ output_next = fi.uncompressed_size
       /\ lowzip_zip_crc32(Written) = AuthoritativeCrc

\* C3: for a conformant DEFLATE encoding of a payload P, with any values in
\* the ignored bits before an uncompressed block, lowzip_inflate_raw entered
\* without error and with a window of at least |P| bytes returns with
\* have_error = 0 and the written bytes equal to P.
InflateRoundTrip ==
    (/\ Returned("inflate_raw")
     /\ src.conformant
     /\ obs.entry_error = 0
     /\ output_cap >= Len(src.payload))
    => (have_error = 0 /\ Written = src.payload)

\* The same with the ignored bits all zero, as deflate encoders emit them.
InflateRoundTripZeroPad ==
    (/\ Returned("inflate_raw")
     /\ src.conformant
     /\ src.pad = 0
     /\ obs.entry_error = 0
     /\ output_cap >= Len(src.payload))
    => (have_error = 0 /\ Written = src.payload)

\* C4: init_archive, locate_file, get_data on a prefix of an archive either
\* succeeds on an entry fully contained in the prefix or ends with
\* have_error set.
SuccessOnlyOnContainedEntry ==
    (Returned("get_data") /\ have_error = 0)
    => (fi.data_offset <= Len(input) /\ EntryDataEnd <= Len(input))

\* C5 as stated: once have_error is set no step of any operation clears it.
ErrorFlagNeverCleared == [][have_error = 1 => have_error' = 1]_vars

\* C5: have_error is cleared only by the entry of lowzip_init_archive,
\* lowzip_locate_file or lowzip_get_data; inside an operation it stays set
\* once set, and the block loop of lowzip_inflate_raw entered with it set
\* returns without reading input or storing output.
ErrorFlagStickyWithinOperation ==
    [][/\ (have_error = 1 /\ have_error' = 0)
          => (pc = "idle" /\ call' \in {"init_archive", "locate_file", "get_data"})
       /\ (have_error = 1 /\ pc = "blocks")
          => (/\ UNCHANGED <<output, output_next, read_offset, curr, have>>
              /\ pc' \in {"idle", "validate"})]_vars

\* An operation was entered with the flag set and has cleared it.
FlagClearedOnEntry ==
    /\ pc \in {"init_scan", "locate", "store", "blocks"}
    /\ obs.entry_error = 1
    /\ have_error = 0

\* C6 as stated: within one call no byte is stored after have_error has
\* become set.
NoStoreAfterError == ~obs.late_store

\* C6: a pass of the block loop, the symbol loop, the code length loop or
\* the STORE loop that starts with have_error set stores nothing and leaves
\* output_next alone; stores after the error are those of the pass in which
\* it arose and of the remaining passes of an uncompressed block's copy loop.
NoStoreInPassesAfterError ==
    [][(have_error = 1 /\ pc \notin {"idle", "uncompressed"})
       => UNCHANGED <<output, output_next>>]_vars

\* A byte was stored after the error arose, and the symbol loop is about
\* to start another pass.
SymbolLoopAfterLateStore ==
    /\ pc = "huffman"
    /\ have_error = 1
    /\ obs.late_store
    /\ output_next < output_cap

\* C7: if the callback returned the out-of-bounds sentinel for any read made
\* during an operation, have_error is set when that operation returns.
OobReadSetsError ==
    (pc = "idle" /\ call # "none" /\ obs.oob) => have_error = 1

\* lowzip_get_data ran off the end of the input.
ExtractionRanOffInput ==
    /\ Returned("get_data")
    /\ obs.oob
    /\ have_error = 1

\* C8: lowzip_locate_file returns NULL if and only if have_error is set on
\* return.
LocateNullIffError ==
    Returned("locate_file") => ((ret = "NULL") <=> (have_error = 1))

Max(a, b) == IF a > b THEN a ELSE b

\* The 16-bit little-endian field at offset p of the input.
Field2(p) == Val(InputBytes(p, 2))

\* The 32-bit little-endian field at offset p of the input.
Field4(p) == Val(InputBytes(p, 4))

\* The offsets of the scanned range that hold the end record's magic and
\* whose comment length field makes the record end with the archive.
EocdCandidates ==
    {o \in Max(0, Len(input) - LOWZIP_MAX_EOCDIR_LENGTH)
           ..(Len(input) - LOWZIP_MIN_EOCDIR_LENGTH) :
        /\ InputBytes(o, 4) = MAGIC_EOCDIR
        /\ o + 22 + Field2(o + 20) = Len(input)}

\* C9: lowzip_init_archive returns with have_error = 0 if and only if some
\* offset of the scanned range holds the magic 0x06054B50 and satisfies
\* o + 22 + (16-bit field at o + 20) = archive size; central_dir_offset is
\* then the 32-bit field at o + 16 of the highest such o.
InitArchiveFindsEocd ==
    Returned("init_archive")
    => IF EocdCandidates = {}
       THEN have_error = 1
       ELSE /\ have_error = 0
            /\ \E o \in EocdCandidates :
                  /\ \A p \in EocdCandidates : p <= o
                  /\ central_dir_offset = Field4(o + 16)

\* The archive was opened although the magic also occurs at a higher offset
\* where the comment length does not fit.
InitSkippedMagicInComment ==
    /\ Returned("init_archive")
    /\ have_error = 0
    /\ \E o \in EocdCandidates :
          \E p \in (o + 1)..(Len(input) - LOWZIP_MIN_EOCDIR_LENGTH) :
             InputBytes(p, 4) = MAGIC_EOCDIR /\ p \notin EocdCandidates

\* The walk over the central directory from offset off to the record of
\* index i: <<"at", off>> with the record's offset, <<"cut", off>> when
\* that record is cut by the end of the input, <<"end", off>> when the run
\* of records with the magic 0x02014B50 ends before it (a record that is
\* cut is the last of the run: the next one would start past the end).
RECURSIVE DirectoryWalk(_, _)
DirectoryWalk(off, i) ==
    IF ~(off >= 0 /\ off + 4 <= Len(input) /\ InputBytes(off, 4) = MAGIC_CDIRFILE)
    THEN <<"end", off>>
    ELSE IF off + 46 > Len(input) \/ off + 46 + Field2(off + 28) > Len(input)
    THEN IF i = 0 THEN <<"cut", off>> ELSE <<"end", off>>
    ELSE IF i = 0 THEN <<"at", off>>
    ELSE DirectoryWalk(off + 46 + Field2(off + 28) + Field2(off + 30)
                       + Field2(off + 32), i - 1)

\* The record at off points to a local header that is all there.
LocalHeaderPresent(off) ==
    /\ Field4(off + 42) + 30 <= Len(input)
    /\ InputBytes(Field4(off + 42), 4) = MAGIC_LOCFILE

\* The entry of the central directory record at off, from its local header.
EntryOfRecord(off) ==
    LET lhdr == Field4(off + 42) IN
    [have_data_descriptor |-> ((Field2(lhdr + 6) \div 8) % 2) * 8,
     compression_method |-> Field2(lhdr + 8),
     crc32 |-> InputBytes(lhdr + 14, 4),
     compressed_size |-> InputBytes(lhdr + 18, 4),
     uncompressed_size |-> Field4(lhdr + 22),
     data_offset |-> lhdr + 30 + Field2(lhdr + 26) + Field2(lhdr + 28),
     filename |-> InputBytes(off + 46, Min(Field2(off + 28), FILENAME_MAX)) \o <<0>>]

RECURSIVE NameWalk(_, _)
NameWalk(off, name) ==
    IF ~(off >= 0 /\ off + 4 <= Len(input) /\ InputBytes(off, 4) = MAGIC_CDIRFILE)
    THEN <<"end", off>>
    ELSE IF off + 46 > Len(input) \/ off + 46 + Field2(off + 28) > Len(input)
    THEN <<"cut", off>>
    ELSE IF Field2(off + 28) = Len(name) /\ InputBytes(off + 46, Len(name)) = name
    THEN <<"at", off>>
    ELSE NameWalk(off + 46 + Field2(off + 28) + Field2(off + 30)
                  + Field2(off + 32), name)

\* C11: lowzip_locate_file(st, _, name) returns the first record in
\* directory order whose full filename length equals strlen(name) and whose
\* filename bytes all equal those of name (no truncation, no case folding);
\* the filename of the returned entry is the first min(filename_length, 255)
\* bytes of the record's name followed by a zero byte.
NameLookup ==
    (Returned("locate_file") /\ loc.by_name)
    => LET w == NameWalk(central_dir_offset, loc.name) IN
       /\ w[1] = "end" => (ret = "NULL" /\ have_error = 1)
       /\ ret = "fi" => w[1] = "at"
       /\ (w[1] = "at" /\ LocalHeaderPresent(w[2]))
          => /\ ret = "fi"
             /\ have_error = 0
             /\ fi = EntryOfRecord(w[2])
             /\ Len(fi.filename) = Min(Len(loc.name), FILENAME_MAX) + 1
             /\ SubSeq(fi.filename, 1, Len(fi.filename) - 1)
                = SubSeq(loc.name, 1, Min(Len(loc.name), FILENAME_MAX))

\* A lookup by name passed over a record whose name differs from it in case
\* only and returned the first of two records carrying the name.
NameFoundBehindOtherCase ==
    /\ Returned("locate_file")
    /\ loc.by_name
    /\ ret = "fi"
    /\ Len(loc.name) = 1
    /\ InputBytes(central_dir_offset + 46, 1) = <<loc.name[1] - 32>>
    /\ LET w == NameWalk(central_dir_offset, loc.name)
           next == w[2] + 46 + Field2(w[2] + 28) + Field2(w[2] + 30) + Field2(w[2] + 32)
       IN /\ w[1] = "at"
          /\ NameWalk(next, loc.name) = <<"at", next>>

\* The longest back-reference the length table gives: base + 3 + all extra
\* bits set.
LongestBackReference(k) == lowzip_len_base[k] + 3 + (2^lowzip_len_bits[k] - 1)

ResetDiscardsBufferedBits ==
    [][(/\ pc = "blocks"
        /\ have = 0
        /\ have_error = 0
        /\ read_offset >= 0
        /\ read_offset < Len(input))
       => loc'.blockhdr = input[read_offset + 1] % 8]_vars

\* The literal/length table lowzip_prepare_huffman builds from the code
\* lengths of the dynamic block being decoded: its symbols in table order.
LitLenSymbols == HuffCodes(SubSeq(code_lens, 1, loc.nlit), loc.nlit, 1)

\* C14 (as stated): while the data of a dynamic block is decoded, the
\* literal/length table lies inside scratch bytes [0,604), that is below the
\* distance table, and every symbol entry of it still holds what
\* lowzip_prepare_huffman wrote there: building the distance table has
\* overwritten none of them.
DynamicTablesKeptApart ==
    (pc = "huffman" /\ loc.static_huffman = 0)
        => /\ LOWZIP_SCRATCH_HUFF_LIT + 16 + Len(LitLenSymbols)
                  <= LOWZIP_SCRATCH_HUFF_DIST
           /\ \A k \in 1..Len(LitLenSymbols) :
                  scratch[LOWZIP_SCRATCH_HUFF_LIT + 15 + k] = LitLenSymbols[k]

(***************************************************************************)
(* The Huffman decoder on its own: lowzip_prepare_huffman builds a table   *)
(* at the start of scratch from code lengths drawn from a bounded set, and *)
(* lowzip_decode_huffman is applied to the bits of the input until the     *)
(* error flag is set.                                                      *)
(***************************************************************************)
\* The largest alphabet and the largest code length of the tables drawn.
MaxSymbols == 3
MaxCodeLen == 3

\* Code lengths with 14 and 15 bit codes: incomplete codes whose codewords
\* start at 2^14, at 0 and at 2^13.
DeepLens == {<<1, 15, 15>>, <<15, 15, 15>>, <<14, 15, 0>>}

\* Every code length array of the bounded alphabet: complete codes such as
\* 1,2,2, incomplete ones such as 0,0,2 and oversubscribed ones such as
\* 1,1,1 are among them.
HuffLens == [1..MaxSymbols -> 0..MaxCodeLen] \cup DeepLens

\* Two bytes of bits: every choice of the first three bits, the rest all
\* zeros or all ones, and a 1 at bit 14 or everywhere in the second byte.
HuffInputs == {<<k + 8 * h, b2>> : k \in 0..7, h \in {0, 31}, b2 \in {64, 255}}

\* The code lengths of the fixed literal/length code (RFC 1951 3.2.6), the
\* code the hand-written decoder of static blocks is made for.
FixedLens ==
    [k \in 1..288 |-> IF k <= 144 THEN 8 ELSE IF k <= 256 THEN 9
                      ELSE IF k <= 280 THEN 7 ELSE 8]

\* Every first byte, so that every codeword of the fixed code comes first
\* once, before a byte of zeros or of ones.
FixedInputs == {<<b1, b2>> : b1 \in 0..255, b2 \in {0, 255}}

\* The largest number of bits asked of lowzip_read_bits_reversed.
MaxReversedBits == 7

InitHuff ==
    /\ src = [kind |-> "bits", conformant |-> FALSE, payload |-> <<>>, pad |-> 0,
              tail |-> 0]
    /\ output_cap = 0
    /\ output = <<>>
    /\ output_next = 0
    /\ central_dir_offset = 0
    /\ have_error = 0
    /\ read_offset = 0
    /\ curr = 0
    /\ have = 0
    /\ scratch = [k \in 0..349 |-> 0]
    /\ \/ /\ input \in HuffInputs
          /\ \E lens \in HuffLens :
                /\ code_lens = [k \in 1..320 |-> IF k <= Len(lens) THEN lens[k] ELSE 0]
                /\ loc = [LocNone EXCEPT !.nlit = Len(lens)]
       \/ /\ input \in FixedInputs
          /\ code_lens = [k \in 1..320 |-> IF k <= 288 THEN FixedLens[k] ELSE 0]
          /\ \E static_huffman \in {0, 1} :
                loc = [LocNone EXCEPT !.nlit = 288, !.static_huffman = static_huffman]
    /\ fi = FiNone
    /\ pc = "prepare"
    /\ call = "huffman"
    /\ ret = "none"
    /\ archive_open = FALSE
    /\ obs = ObsNone

\* lowzip_prepare_huffman(st, code_lens, nlit, scratch).
PrepareTable ==
    /\ pc = "prepare"
    /\ Running
    /\ Commit(lowzip_prepare_huffman(Cur, SubSeq(code_lens, 1, loc.nlit), loc.nlit, 0))
    /\ loc' = loc
    /\ pc' = "decode"

\* t = lowzip_decode_huffman(st, scratch), as long as no error is flagged.
DecodeSymbol ==
    /\ pc = "decode"
    /\ have_error = 0
    /\ loc.static_huffman = 0
    /\ Running
    /\ LET d == lowzip_decode_huffman(Cur, 0) IN
          /\ Commit(d)
          /\ loc' = [loc EXCEPT !.t = d.ret]
    /\ pc' = "decode"

\* The static branch of lowzip_decode_huffman_block_data: t from the
\* hand-written decoder.
StaticSymbol ==
    /\ pc = "decode"
    /\ have_error = 0
    /\ loc.static_huffman = 1
    /\ Running
    /\ LET d == StaticLitLen(Cur) IN
          /\ Commit(d)
          /\ loc' = [loc EXCEPT !.t = d.ret]
    /\ pc' = "decode"

\* lowzip_read_bits_reversed(st, nbits) on its own.
ReadReversed ==
    /\ pc = "decode"
    /\ have_error = 0
    /\ loc.static_huffman = 1
    /\ Running
    /\ \E nbits \in 1..MaxReversedBits :
          LET d == lowzip_read_bits_reversed(Cur, nbits) IN
             /\ Commit(d)
             /\ loc' = [loc EXCEPT !.len = d.ret]
    /\ pc' = "decode"

NextHuff == PrepareTable \/ DecodeSymbol \/ StaticSymbol \/ ReadReversed

SpecHuff == InitHuff /\ [][NextHuff]_vars

\* The bit of the input at bit position p (bytes are consumed from bit 0
\* up; past the end lowzip_read_byte feeds zero bytes).
BitAt(p) ==
    IF p < 8 * Len(input) THEN (input[p \div 8 + 1] \div 2^(p % 8)) % 2 ELSE 0

\* The position of the next bit the bit reader hands out.
BitPos == 8 * read_offset - have

\* The n bits from position p on as a number, first bit most significant.
RECURSIVE BitsMsbFirst(_, _)
BitsMsbFirst(p, n) ==
    IF n = 0 THEN 0 ELSE BitsMsbFirst(p, n - 1) * 2 + BitAt(p + n - 1)

\* The code the table in scratch was built from (RFC 1951 3.2.2): the
\* number of codes of each length, and the first code of each length.
CountOfLen(len) == Cardinality({j \in 1..loc.nlit : code_lens[j] = len})

RECURSIVE FirstCode(_)
FirstCode(len) ==
    IF len = 1 THEN 0 ELSE (FirstCode(len - 1) + CountOfLen(len - 1)) * 2

NonzeroSymbols == Cardinality({j \in 1..loc.nlit : code_lens[j] # 0})

\* The next len bits are a codeword of length len.
CodewordEnds(len) ==
    /\ BitsMsbFirst(BitPos, len) >= FirstCode(len)
    /\ BitsMsbFirst(BitPos, len) < FirstCode(len) + CountOfLen(len)

\* C15: on a table lowzip_prepare_huffman built from code lengths 0..15,
\* whatever the bits, lowzip_decode_huffman never has code below code_start
\* (the unsigned subtraction does not wrap) and reads the symbols array only
\* at an index below the number of symbols with a nonzero length; it reads a
\* symbol exactly when a codeword ends within 15 bits, and otherwise sets
\* have_error and returns 0 without reading the symbols array.
HuffmanDecodeSafe ==
    [][(pc = "decode" /\ have_error = 0 /\ loc.static_huffman = 0)
       => /\ ~obs'.huff_wrap
          /\ obs'.huff_index < NonzeroSymbols
          /\ IF \E len \in 1..15 : CodewordEnds(len)
             THEN obs'.huff_index >= 0
             ELSE /\ obs'.huff_index = -1
                  /\ have_error' = 1
                  /\ loc'.t = 0]_vars

\* A decode used up its 15 bits, all of them bits of the input, on a table
\* that has codes.
HuffmanRanOutOfLevels ==
    /\ pc = "decode"
    /\ have_error = 1
    /\ ~obs.oob
    /\ obs.huff_index = -1
    /\ loc.t = 0
    /\ NonzeroSymbols > 0

\* C16: a pass of the symbol loop that decodes a back-reference, with
\* w = output_next bytes written and r = output_cap - output_next bytes free:
\* when its distance is above w or its length above r, have_error is set
\* and no byte is stored; otherwise exactly length bytes are appended, each
\* equal to the byte distance places before it (also when the distance is
\* below the length), the bytes written before stay, and every load is from
\* inside the bytes written so far.
BackReferenceCopies ==
    [][(pc = "huffman" /\ ~HuffmanErrorBreak /\ obs'.back_len > 0)
       => LET w == output_next
              r == output_cap - output_next
              distance == obs'.back_dist
              length == obs'.back_len
          IN IF distance > w \/ length > r
             THEN /\ have_error' = 1
                  /\ output_next' = output_next
                  /\ output' = output
             ELSE /\ output_next' = w + length
                  /\ \A i \in 0..(length - 1) :
                        output'[w + i + 1] = output'[w + i - distance + 1]
                  /\ \A k \in 1..w : output'[k] = output[k]
                  /\ \A k \in (w + length + 1)..output_cap : output'[k] = output[k]
                  /\ ~obs'.bad_load
                  /\ ~obs'.bad_store]_vars

\* "AB", then length 5 at distance 2, has been decoded: five bytes ABABA
\* were appended.
OverlapCopied ==
    /\ call = "inflate_raw"
    /\ obs.back_dist = 2
    /\ obs.back_len = 5
    /\ output_next = 7
    /\ SubSeq(output, 1, 7) = <<65, 66>> \o <<65, 66, 65, 66, 65>>
    /\ have_error = 0

\* lowzip_get_data has reached the data descriptor read: the flag is set,
\* no error is flagged and the length check has passed.
DescriptorRead ==
    /\ pc = "validate"
    /\ have_error = 0
    /\ loc.header_have_data_descriptor # 0
    /\ output_next = loc.header_uncompressed_size

\* C17 (as stated): with the data-descriptor flag set, the CRC
\* lowzip_get_data compares with is the one of the record that follows the
\* entry's data, behind its optional signature 0x08074B50, for DEFLATE and
\* for STORE entries, whatever read_offset was before the call.
DescriptorCrcFollowsData ==
    DescriptorRead => ReadDescriptorCrc(Cur).ret = AuthoritativeCrc

\* Two runs of a decoder from the same state end alike: same value, same
\* bits consumed, same bytes fetched, same error flag.
SameOutcome(a, b) ==
    /\ a.ret = b.ret
    /\ a.read_offset = b.read_offset
    /\ a.have = b.have
    /\ a.curr = b.curr
    /\ a.have_error = b.have_error
    /\ a.oob = b.oob

\* C18: with the table lowzip_prepare_huffman builds from the fixed code
\* lengths in scratch, the hand-written static literal/length decoder and
\* lowzip_decode_huffman return the same symbol and consume the same bits
\* from every state; and lowzip_read_bits_reversed(n) gives what n one-bit
\* reads give when accumulated most significant bit first.
StaticDecoderMatchesTable ==
    (pc = "decode" /\ loc.nlit = 288)
        => /\ SameOutcome(StaticLitLen(Cur), lowzip_decode_huffman(Cur, 0))
           /\ \A nbits \in 0..MaxReversedBits :
                 SameOutcome(lowzip_read_bits_reversed(Cur, nbits),
                             ReadBitsOneByOne(Cur, nbits, 0))

\* The hand-written decoder has returned symbol 287 (the 8-bit code 199)
\* from bits that were all in the input.
StaticDecoded287 ==
    /\ pc = "decode"
    /\ loc.static_huffman = 1
    /\ loc.t = 287
    /\ have_error = 0
    /\ lowzip_decode_huffman(Cur, 0).ret = StaticLitLen(Cur).ret

\* A pass of the block loop that reads a block header whose three bits are
\* all in the input.
BlockHeaderRead ==
    /\ pc = "blocks"
    /\ ~BlockLoopErrorReturn
    /\ BitPos + 3 <= 8 * Len(input)

\* BFINAL and BTYPE of the block header at the next bit of the stream.
StreamBfinal == BitAt(BitPos)
StreamBtype == BitAt(BitPos + 1) + 2 * BitAt(BitPos + 2)

\* lowzip_inflate_raw has returned (to the test program or to
\* lowzip_get_data).
InflateReturned ==
    \/ Returned("inflate_raw")
    \/ pc = "validate" /\ fi.compression_method = LOWZIP_COMPRESSION_DEFLATE

\* The block loop takes a block as the last one exactly when the BFINAL bit
\* of its header in the stream is set.
FinalAsInStream ==
    [][BlockHeaderRead => loc'.blockhdr % 2 = StreamBfinal]_vars

\* BTYPE = 3 sets have_error, and no byte is fetched after the byte that
\* holds the end of the 3-bit header: not in this pass, and not in the pass
\* that finds the flag set.
ReservedTypeStops ==
    /\ [][(BlockHeaderRead /\ StreamBtype = 3)
          => /\ have_error' = 1
             /\ pc' \in {"blocks", AfterInflate}
             /\ read_offset' = (BitPos + 3 + 7) \div 8
             /\ output_next' = output_next]_vars
    /\ [][(pc = "blocks" /\ BlockLoopErrorReturn)
          => /\ pc' = AfterInflate
             /\ UNCHANGED <<read_offset, have, curr, output_next>>]_vars

\* A return without error comes after a block read as final.
NoErrorOnlyAfterFinal ==
    [](InflateReturned /\ have_error = 0 => loc.blockhdr % 2 = 1)

\* A stream decoded without error: nothing was fetched behind the byte
\* that holds the last bit of its final block.
NothingReadBehindFinal ==
    []((Returned("inflate_raw") /\ src.conformant /\ have_error = 0)
          => read_offset = Len(input) - src.tail)

\* C19 (as stated): lowzip_inflate_raw reads the block headers one after
\* another and stops after the first block whose BFINAL bit is set, reading
\* no input behind that block's last bit; it returns with have_error = 0
\* only if the last block it processed had BFINAL = 1; BTYPE = 3 sets
\* have_error and nothing is read after its 3-bit header.
BlockLoopFollowsStream ==
    /\ FinalAsInStream
    /\ NoErrorOnlyAfterFinal
    /\ NothingReadBehindFinal
    /\ ReservedTypeStops

\* A pass of the scan loop of lowzip_init_archive that goes on to test its
\* offset: the loop condition holds and no error is flagged.
ScanPassTests ==
    /\ pc = "init_scan"
    /\ have_error = 0
    /\ loc.offset >= zip_length - LOWZIP_MAX_EOCDIR_LENGTH

\* C20 (as stated): lowzip_init_archive tests only the offsets from
\* archive_size - 22 down to max(archive_size - 65557, 0), whatever the
\* archive size, and never calls the read callback with an offset outside
\* [0, archive_size).
InitArchiveScansInside ==
    /\ ScanPassTests
          => loc.offset \in Max(0, zip_length - LOWZIP_MAX_EOCDIR_LENGTH)
                            ..(zip_length - LOWZIP_MIN_EOCDIR_LENGTH)
    /\ call = "init_archive" => ~obs.oob

\* The largest distance a distance symbol gives: base + all extra bits set.
LargestDistance(k) == lowzip_dist_base[k] + (2^lowzip_dist_bits[k] - 1)

\* C21: the four tables have 29, 29, 30 and 30 entries, every distance
\* base is at least 1, and no symbol gives a distance above 32768 or a
\* length outside 3..258.  In a pass of the symbol loop: a literal/length
\* symbol above 285 sets have_error with no table read and nothing stored;
\* a distance symbol above 29 sets have_error with no distance table read
\* and nothing stored; the length tables are read at an index in 0..28
\* only and the distance tables at an index in 0..29 only; and every
\* back-reference of the pass has its distance in 1..32768 and its length
\* in 3..258.
BackReferenceInRange ==
    [][(pc = "huffman" /\ ~HuffmanErrorBreak)
       => LET o == obs' IN
          /\ Len(lowzip_len_base) = 29 /\ Len(lowzip_len_bits) = 29
          /\ Len(lowzip_dist_base) = 30 /\ Len(lowzip_dist_bits) = 30
          /\ \A k \in 1..30 : lowzip_dist_base[k] >= 1 /\ LargestDistance(k) <= 32768
          /\ \A k \in 1..29 : lowzip_len_base[k] + 3 >= 3 /\ LongestBackReference(k) <= 258
          /\ o.len_symbol > 285
                => /\ have_error' = 1
                   /\ o.len_index = -1 /\ o.dist_symbol = -1 /\ o.dist_index = -1
                   /\ o.back_len = 0
                   /\ output' = output /\ output_next' = output_next
          /\ o.dist_symbol > 29
                => /\ have_error' = 1
                   /\ o.dist_index = -1
                   /\ o.back_len = 0
                   /\ output' = output /\ output_next' = output_next
          /\ o.len_index # -1 => o.len_index \in 0..28
          /\ o.dist_index # -1 => o.dist_index \in 0..29
          /\ o.back_len > 0
                => /\ o.back_dist \in 1..32768
                   /\ o.back_len \in 3..258
                   /\ o.len_index = o.len_symbol - 257
                   /\ o.dist_index = o.dist_symbol
          /\ output_next' > output_next /\ o.len_symbol # -1
                => o.back_len > 0 /\ ~o.bad_load]_vars

\* A back-reference with the largest distance there is, 32768, was decoded
\* and refused.
FarthestDistanceDecoded ==
    /\ call = "inflate_raw"
    /\ obs.dist_symbol = 29
    /\ obs.dist_index = 29
    /\ obs.back_dist = 32768
    /\ obs.back_len = 3
    /\ have_error = 1
    /\ output_next = 1

\* A back-reference with the largest length there is, 258 from symbol 284
\* and its five extra bits, at the smallest distance, 1, was decoded and
\* copied.
LongestLengthCopied ==
    /\ call = "inflate_raw"
    /\ obs.len_symbol = 284
    /\ obs.len_index = 27
    /\ obs.dist_symbol = 0
    /\ obs.dist_index = 0
    /\ obs.back_dist = 1
    /\ obs.back_len = 258
    /\ have_error = 0
    /\ output_next = 259
====
